---- MODULE Spec2Model ----
(***************************************************************************)
(* Revision lifecycle of foomo/typesense: BaseAPI (pkg/api) drives the     *)
(* collections and aliases of the Typesense backing store, BaseIndexer.Run *)
(* (pkg/indexing) drives one build.  Names are sequences of one-character  *)
(* strings, so that prefix tests, trimming and ordering are computed as    *)
(* the Go code computes them.                                              *)
(*                                                                         *)
(* Seven specifications share the variables: Spec, the builds of          *)
(* BaseIndexer.Run; CancelSpec, the same builds with a caller that cancels *)
(* the context; ConcurrentSpec, two builds at once against one store;      *)
(* ApiSpec, a client calling the methods of BaseAPI directly, in any       *)
(* order; NamingSpec, the naming functions applied to drawn inputs;        *)
(* ProvideSpec, ContentServer.Provide applied to drawn content trees;      *)
(* LifecycleSpec, a client taking BaseAPI through build after build.       *)
(***************************************************************************)
EXTENDS Integers, Sequences, FiniteSets, TLC

\* ------------------------------------------------------------------ bounds

\* Minutes of the wall clock a build can start in: 0..MaxMinute.
MaxMinute == 2

\* Remote calls to the backing store that fail in one behaviour.
MaxFaults == 1

\* Calls a direct client of pkg/api makes in one behaviour.
MaxCalls == 3

\* ----------------------------------------------------------------- strings

Dash == "-"

DigitChars == <<"0", "1", "2", "3", "4", "5", "6", "7", "8", "9">>

\* Byte values of the characters used, for Go's string comparison.
CharCode(c) ==
    CASE c = "-" -> 45
      [] c = "0" -> 48 [] c = "1" -> 49 [] c = "2" -> 50 [] c = "3" -> 51
      [] c = "4" -> 52 [] c = "5" -> 53 [] c = "6" -> 54 [] c = "7" -> 55
      [] c = "8" -> 56 [] c = "9" -> 57
      [] c = "d" -> 100 [] c = "w" -> 119 [] c = "x" -> 120

MinOf(S) == CHOOSE i \in S : \A j \in S : i <= j

\* The elements of a sequence.
Range(seq) == {seq[i] : i \in DOMAIN seq}

\* Go's a < b on strings: bytewise lexicographic.
StrLess(a, b) ==
    LET n    == IF Len(a) < Len(b) THEN Len(a) ELSE Len(b)
        diff == {i \in 1..n : a[i] # b[i]}
    IN  IF diff = {} THEN Len(a) < Len(b)
        ELSE CharCode(a[MinOf(diff)]) < CharCode(b[MinOf(diff)])

HasPrefix(s, prefix) ==
    Len(s) >= Len(prefix) /\ SubSeq(s, 1, Len(prefix)) = prefix

TrimPrefix(s, prefix) ==
    IF HasPrefix(s, prefix) THEN SubSeq(s, Len(prefix) + 1, Len(s)) ELSE s

\* The empty RevisionID "".
NoRevision == <<>>

RevisionIDLen == 16

\* A field of the layout printed on two digits, zero-padded.
TwoDigits(n) == <<DigitChars[(n \div 10) + 1], DigitChars[(n % 10) + 1]>>

FourDigits(n) ==
    <<DigitChars[((n \div 1000) % 10) + 1], DigitChars[((n \div 100) % 10) + 1],
      DigitChars[((n \div 10) % 10) + 1], DigitChars[(n % 10) + 1]>>

IsLeapYear(y) == (y % 4 = 0 /\ y % 100 # 0) \/ y % 400 = 0

DaysInMonth(y, m) ==
    IF m = 2 THEN (IF IsLeapYear(y) THEN 29 ELSE 28)
    ELSE IF m \in {4, 6, 9, 11} THEN 30 ELSE 31

\* The date <<year, month, day>> that lies d days after the first of month
\* m of year y.
RECURSIVE DateOf(_, _, _)
DateOf(y, m, d) ==
    IF d < DaysInMonth(y, m) THEN <<y, m, d + 1>>
    ELSE IF m = 12 THEN DateOf(y + 1, 1, d - DaysInMonth(y, m))
    ELSE DateOf(y, m + 1, d - DaysInMonth(y, m))

\* The minute an instant of the clock lies in, the instant counted in
\* seconds: the layout of generateRevisionID has no field below the minute.
ClockMinute(seconds) == seconds \div 60

\* The time zones a process can run in (time.Local): one without
\* transitions and two with daylight saving time.
Zones == {"UTC", "Europe/Vienna", "America/New_York"}

\* The first minute of daylight saving time of a zone in 2026 and the first
\* minute after it, counted as elapsed minutes from 2026-01-01 00:00 of the
\* zone: Vienna 03-29 02:00 CET and 10-25 03:00 CEST, New York 03-08 02:00
\* EST and 11-01 02:00 EDT.
DaylightSaving(zone) ==
    IF zone = "Europe/Vienna" THEN <<87 * 1440 + 120, 297 * 1440 + 120>>
    ELSE IF zone = "America/New_York" THEN <<66 * 1440 + 120, 304 * 1440 + 60>>
    ELSE <<0, 0>>

\* time.Now() in time.Local: the reading of the wall clock of the zone at
\* the instant that lies elapsed minutes after 2026-01-01 00:00 of the
\* zone, as minutes from that date and time on the dial.  During daylight
\* saving time the dial is an hour ahead.
LocalMinute(zone, elapsed) ==
    IF DaylightSaving(zone)[1] <= elapsed /\ elapsed < DaylightSaving(zone)[2]
    THEN elapsed + 60 ELSE elapsed

\* Format("2006-01-02-15-04") of a reading of the wall clock: t is what
\* the dial of the process's zone shows, in minutes from 2026-01-01 00:00
\* on the dial (LocalMinute gives the reading of an instant).  The builds
\* below read the clock in the first minutes of 2026-01-01, where the dial
\* of every zone advances with the instants.
generateRevisionID(t) ==
    LET date == DateOf(2026, 1, t \div 1440)
    IN  FourDigits(date[1]) \o <<Dash>> \o TwoDigits(date[2]) \o <<Dash>>
            \o TwoDigits(date[3]) \o <<Dash>>
            \o TwoDigits((t \div 60) % 24) \o <<Dash>> \o TwoDigits(t % 60)

formatCollectionName(indexID, revisionID) == indexID \o <<Dash>> \o revisionID

\* The position of the first Dash of s (Len(s) + 1 when there is none).
FirstDash(s) == MinOf({i \in DOMAIN s : s[i] = Dash} \cup {Len(s) + 1})

\* extractRevisionID taking what follows the first Dash of the name as the
\* RevisionID.
extractRevisionIDAtFirstDash(collectionName, name) ==
    IF ~HasPrefix(collectionName, name \o <<Dash>>) THEN NoRevision
    ELSE LET revisionID == SubSeq(collectionName, FirstDash(collectionName) + 1,
                                  Len(collectionName))
         IN  IF Len(revisionID) # RevisionIDLen THEN NoRevision ELSE revisionID

\* extractRevisionID without the check of the length.
extractRevisionIDAnyLength(collectionName, name) ==
    IF ~HasPrefix(collectionName, name \o <<Dash>>) THEN NoRevision
    ELSE TrimPrefix(collectionName, name \o <<Dash>>)

extractRevisionID(collectionName, name) ==
    IF ~HasPrefix(collectionName, name \o <<Dash>>) THEN NoRevision
    ELSE LET revisionID == TrimPrefix(collectionName, name \o <<Dash>>)
         IN  IF Len(revisionID) # RevisionIDLen THEN NoRevision ELSE revisionID

\* ----------------------------------------------------------- configuration

IdxW  == <<"w">>
IdxWD == <<"w", "-", "d">>
IdxX  == <<"x">>

IndexIDs == {IdxW, IdxWD, IdxX}

\* What NewBaseAPI can be constructed with: the keys of b.collections and
\* whether b.preset is non-nil.
Configs ==
    { [collections |-> {},            preset |-> FALSE],
      [collections |-> {IdxX},        preset |-> TRUE],
      [collections |-> {IdxW, IdxWD}, preset |-> FALSE] }

\* The subsets of S of at most k elements.
RECURSIVE SubsetsUpTo(_, _)
SubsetsUpTo(S, k) ==
    IF k <= 0 \/ S = {} THEN {{}}
    ELSE LET smaller == SubsetsUpTo(S, k - 1)
         IN  smaller \cup {T \cup {x} : T \in smaller, x \in S}

\* Every order a Go map range over S can take.
Orders(S) ==
    {o \in [1..Cardinality(S) -> S] : \A i, j \in 1..Cardinality(S) : o[i] = o[j] => i = j}

\* ------------------------------------------------------------ backing store
\* A store is [coll, alias, preset]: coll maps each existing collection name
\* to its set of documents, alias maps each alias name to its target name.

EmptyStore == [coll |-> <<>>, alias |-> <<>>, preset |-> FALSE]

Exists(st, name) == name \in DOMAIN st.coll

\* client.Collections().Create
CreateCollection(st, name) ==
    [st EXCEPT !.coll = [n \in DOMAIN st.coll \cup {name} |->
                            IF n \in DOMAIN st.coll THEN st.coll[n] ELSE {}]]

\* client.Collection(name).Delete
DeleteCollection(st, name) ==
    [st EXCEPT !.coll = [n \in DOMAIN st.coll \ {name} |-> st.coll[n]]]

\* client.Aliases().Upsert
UpsertAlias(st, name, target) ==
    [st EXCEPT !.alias = [n \in DOMAIN st.alias \cup {name} |->
                            IF n = name THEN target ELSE st.alias[n]]]

\* ------------------------------------------------------- BaseAPI (pkg/api)

\* Where one Initialize call can meet a failing remote call: at |-> the call,
\* k |-> the position in the range over b.collections (0 outside the loop).
InitFailures(n) ==
    { [at |-> a, k |-> 0] : a \in {"none", "health", "aliases", "fetch", "preset"} }
        \cup { [at |-> a, k |-> i] : a \in {"createFetch", "create", "alias"}, i \in 1..n }

\* createCollectionIfNotExists logging the error of Create and returning nil.
createCollectionSwallowsError(st, collectionName, failing) ==
    IF failing = "createFetch" THEN [st |-> st, err |-> TRUE]
    ELSE IF Exists(st, collectionName) THEN [st |-> st, err |-> FALSE]
    ELSE IF failing = "create" THEN [st |-> st, err |-> FALSE]
    ELSE [st |-> CreateCollection(st, collectionName), err |-> FALSE]

\* createCollectionIfNotExists without the look-up: Create is called for a
\* name that may exist, which the store answers with an error.
createCollectionAlways(st, collectionName, failing) ==
    IF failing = "createFetch" THEN [st |-> st, err |-> TRUE]
    ELSE IF Exists(st, collectionName) \/ failing = "create"
    THEN [st |-> st, err |-> TRUE]
    ELSE [st |-> CreateCollection(st, collectionName), err |-> FALSE]

createCollectionIfNotExists(st, collectionName, failing) ==
    IF failing = "createFetch" THEN [st |-> st, err |-> TRUE]
    ELSE IF Exists(st, collectionName) THEN [st |-> st, err |-> FALSE]
    ELSE IF failing = "create" THEN [st |-> st, err |-> TRUE]
    ELSE [st |-> CreateCollection(st, collectionName), err |-> FALSE]

ensureAliasMapping(st, indexID, collectionName, failing) ==
    IF failing = "alias" THEN [st |-> st, err |-> TRUE]
    ELSE [st |-> UpsertAlias(st, indexID, collectionName), err |-> FALSE]

\* Step 4 of Initialize, from position i of the range order ord.
RECURSIVE InitializeLoop(_, _, _, _, _)
InitializeLoop(st, ord, i, newRevisionID, fail) ==
    IF i > Len(ord) THEN [st |-> st, err |-> FALSE]
    ELSE LET indexID        == ord[i]
             collectionName == formatCollectionName(indexID, newRevisionID)
             failing        == IF fail.k = i THEN fail.at ELSE "none"
             created        == createCollectionIfNotExists(st, collectionName, failing)
             mapped         == ensureAliasMapping(created.st, indexID, collectionName, failing)
         IN  IF created.err THEN created
             ELSE IF mapped.err THEN mapped
             ELSE InitializeLoop(mapped.st, ord, i + 1, newRevisionID, fail)

\* Initialize at minute t.  bRevisionID is b.revisionID after the call
\* (old: its value before the call).  Step 3 of the code fills latestRevisions
\* and aliasMappings, which nothing reads afterwards: it has no effect.
Initialize(st, cfg, old, t, ord, fail) ==
    IF fail.at \in {"health", "aliases", "fetch"}
    THEN [st |-> st, revisionID |-> NoRevision, err |-> TRUE, bRevisionID |-> old]
    ELSE LET newRevisionID == generateRevisionID(t)
             looped        == InitializeLoop(st, ord, 1, newRevisionID, fail)
         IN  IF looped.err
             THEN [st |-> looped.st, revisionID |-> NoRevision, err |-> TRUE,
                   bRevisionID |-> old]
             ELSE IF cfg.preset /\ fail.at = "preset"
             THEN [st |-> looped.st, revisionID |-> NoRevision, err |-> TRUE,
                   bRevisionID |-> newRevisionID]
             ELSE [st |-> [looped.st EXCEPT !.preset = @ \/ cfg.preset],
                   revisionID |-> newRevisionID, err |-> FALSE,
                   bRevisionID |-> newRevisionID]

\* The failing remote call of fail is one Initialize makes at minute t:
\* Create is called only for a name that does not exist, the preset is
\* upserted only when one is configured.
InitFailureMade(st, cfg, t, ord, fail) ==
    CASE fail.at = "create" ->
             ~Exists(st, formatCollectionName(ord[fail.k], generateRevisionID(t)))
      [] fail.at = "preset" -> cfg.preset
      [] OTHER              -> TRUE

\* Indices returning an empty list when nothing is configured.
IndicesAllowsEmpty(cfg, ord) == [indices |-> ord, err |-> FALSE]

\* Indices: the configured IndexIDs in range order ord, or an error.
Indices(cfg, ord) ==
    IF Cardinality(cfg.collections) = 0 THEN [indices |-> <<>>, err |-> TRUE]
    ELSE [indices |-> ord, err |-> FALSE]

\* An absent slot of a document sequence (a nil *indexDocument).
NilDoc == "nil"

\* What one bulk import can meet: the whole call rejected, or accepted with
\* the documents at positions ok written and the others reported as failed.
ImportOutcomes(n) == [rejected : BOOLEAN, ok : SUBSET (1..n)]

\* The import outcome is that of a call UpsertDocuments makes: nothing is
\* rejected for an empty slice, for which Import is not called.
ImportOutcomeMade(documents, outcome) == outcome.rejected => Len(documents) > 0

\* The remote calls of one UpsertDocuments that fail: the import, when it is
\* made and rejected.
ImportFaults(documents, outcome) ==
    IF Len(documents) > 0 /\ outcome.rejected THEN 1 ELSE 0

\* UpsertDocuments without the early return for an empty slice.
UpsertDocumentsAlwaysImports(st, revisionID, indexID, documents, outcome) ==
    LET collectionName == formatCollectionName(indexID, revisionID)
        written == {documents[i] : i \in {j \in outcome.ok : documents[j] # NilDoc}}
    IN  IF outcome.rejected \/ ~Exists(st, collectionName)
        THEN [st |-> st, err |-> TRUE]
        ELSE [st |-> [st EXCEPT !.coll[collectionName] = @ \cup written],
              err |-> FALSE]

\* UpsertDocuments returning an error when the import reports a document as
\* failed.
UpsertDocumentsFailsOnDocument(st, revisionID, indexID, documents, outcome) ==
    IF Len(documents) = 0 THEN [st |-> st, err |-> FALSE]
    ELSE LET collectionName == formatCollectionName(indexID, revisionID)
             written == {documents[i] : i \in {j \in outcome.ok : documents[j] # NilDoc}}
         IN  IF outcome.rejected \/ ~Exists(st, collectionName)
             THEN [st |-> st, err |-> TRUE]
             ELSE [st |-> [st EXCEPT !.coll[collectionName] = @ \cup written],
                   err |-> outcome.ok # DOMAIN documents]

\* UpsertDocuments importing into the collection the alias of the IndexID
\* targets.
UpsertDocumentsThroughAlias(st, revisionID, indexID, documents, outcome) ==
    IF Len(documents) = 0 THEN [st |-> st, err |-> FALSE]
    ELSE LET collectionName == IF indexID \in DOMAIN st.alias THEN st.alias[indexID]
                               ELSE formatCollectionName(indexID, revisionID)
             written == {documents[i] : i \in {j \in outcome.ok : documents[j] # NilDoc}}
         IN  IF outcome.rejected \/ ~Exists(st, collectionName)
             THEN [st |-> st, err |-> TRUE]
             ELSE [st |-> [st EXCEPT !.coll[collectionName] = @ \cup written],
                   err |-> FALSE]

UpsertDocuments(st, revisionID, indexID, documents, outcome) ==
    IF Len(documents) = 0 THEN [st |-> st, err |-> FALSE]
    ELSE LET collectionName == formatCollectionName(indexID, revisionID)
             written == {documents[i] : i \in {j \in outcome.ok : documents[j] # NilDoc}}
         IN  IF outcome.rejected \/ ~Exists(st, collectionName)
             THEN [st |-> st, err |-> TRUE]
             ELSE [st |-> [st EXCEPT !.coll[collectionName] = @ \cup written],
                   err |-> FALSE]

\* sort.Slice(oldCollections, >): the names of S, latest first.
RECURSIVE SortDescending(_)
SortDescending(S) ==
    IF S = {} THEN <<>>
    ELSE LET top == CHOOSE x \in S : \A y \in S : ~StrLess(x, y)
         IN  <<top>> \o SortDescending(S \ {top})

RECURSIVE DeleteEach(_, _, _)
\* The deletion loop of pruneOldCollections leaving the range at the first
\* deletion that fails.
DeleteEachStops(st, toDelete, delFail) ==
    IF toDelete = <<>> THEN st
    ELSE IF Head(toDelete) \in delFail THEN st
    ELSE DeleteEach(DeleteCollection(st, Head(toDelete)), Tail(toDelete), delFail)

DeleteEach(st, toDelete, delFail) ==
    IF toDelete = <<>> THEN st
    ELSE DeleteEach(IF Head(toDelete) \in delFail THEN st
                    ELSE DeleteCollection(st, Head(toDelete)),
                    Tail(toDelete), delFail)

\* The names pruneOldCollections collects before sorting.
OldCollections(st, alias, currentCollection) ==
    {c \in DOMAIN st.coll : HasPrefix(c, alias \o <<Dash>>) /\ c # currentCollection}

\* The names a pruning for alias with the current generation current
\* attempts to delete in st.
PruneTargets(st, alias, current) ==
    LET oldCollections == SortDescending(OldCollections(st, alias, current))
    IN  IF Len(oldCollections) > 1 THEN Range(Tail(oldCollections)) ELSE {}

\* retrieveFails: Collections().Retrieve fails; delFail: the names whose
\* deletion fails.
pruneOldCollections(st, alias, currentCollection, retrieveFails, delFail) ==
    IF retrieveFails THEN [st |-> st, err |-> TRUE]
    ELSE LET oldCollections == SortDescending(OldCollections(st, alias, currentCollection))
         IN  IF Len(oldCollections) > 1
             THEN [st |-> DeleteEach(st, Tail(oldCollections), delFail), err |-> FALSE]
             ELSE [st |-> st, err |-> FALSE]

\* What one CommitRevision call can meet with at most k failing remote
\* calls: the alias upsert failing at position aliasFailAt of the range (0:
\* never), the collection listing failing for the IndexIDs in pruneFail,
\* the deletions <<IndexID, name>> of delFail failing: that of name in the
\* pruning for IndexID, which deletes nothing but what it would delete in
\* st (the iterations before it only delete).
CommitOutcomes(st, config, revisionID, k) ==
    [aliasFailAt : 0..(IF k > 0 THEN Cardinality(config.collections) ELSE 0),
     pruneFail   : SubsetsUpTo(config.collections, k),
     delFail     : SubsetsUpTo(
                       UNION {{<<indexID, name>> :
                                  name \in PruneTargets(st, indexID,
                                               formatCollectionName(indexID, revisionID))} :
                              indexID \in config.collections}, k)]

\* The names whose deletion fails in the pruning for indexID.
DelFailFor(outcome, indexID) ==
    {p[2] : p \in {q \in outcome.delFail : q[1] = indexID}}

\* The failed remote calls of one CommitRevision outcome.
CommitFaults(outcome) ==
    (IF outcome.aliasFailAt = 0 THEN 0 ELSE 1)
        + Cardinality(outcome.pruneFail) + Cardinality(outcome.delFail)

\* One iteration of CommitRevision's loop with the two steps exchanged.
CommitStepPruneFirst(st, revisionID, indexID, outcome, log) ==
    LET alias             == indexID
        newCollectionName == formatCollectionName(indexID, revisionID)
        pruned            == pruneOldCollections(st, alias, newCollectionName,
                                                 indexID \in outcome.pruneFail,
                                                 DelFailFor(outcome, indexID))
    IN  [st |-> UpsertAlias(pruned.st, alias, newCollectionName), err |-> FALSE,
         pruneErr |-> pruned.err,
         log |-> log \o << <<"prune", indexID>>, <<"alias", indexID>> >>]

\* One iteration of CommitRevision's loop returning the error of the
\* pruning.
CommitStepPropagates(st, revisionID, indexID, outcome, log) ==
    LET alias             == indexID
        newCollectionName == formatCollectionName(indexID, revisionID)
        swapped           == UpsertAlias(st, alias, newCollectionName)
        pruned            == pruneOldCollections(swapped, alias, newCollectionName,
                                                 indexID \in outcome.pruneFail,
                                                 DelFailFor(outcome, indexID))
    IN  [st |-> pruned.st, err |-> pruned.err,
         pruneErr |-> pruned.err,
         log |-> log \o << <<"alias", indexID>>, <<"prune", indexID>> >>]

\* One iteration of CommitRevision's loop past the alias upsert, for the
\* IndexID indexID: err is what the iteration makes CommitRevision return
\* with (the error of the pruning is logged only).
CommitStep(st, revisionID, indexID, outcome, log) ==
    LET alias             == indexID
        newCollectionName == formatCollectionName(indexID, revisionID)
        swapped           == UpsertAlias(st, alias, newCollectionName)
        pruned            == pruneOldCollections(swapped, alias, newCollectionName,
                                                 indexID \in outcome.pruneFail,
                                                 DelFailFor(outcome, indexID))
    IN  [st |-> pruned.st, err |-> FALSE,
         pruneErr |-> pruned.err,
         log |-> log \o << <<"alias", indexID>>, <<"prune", indexID>> >>]

\* CommitRevision's loop from position i of the range order ord.  steps
\* keeps, for every iteration that got past the alias upsert, the store
\* before and after it and whether pruneOldCollections returned an error.
RECURSIVE CommitLoopContinues(_, _, _, _, _, _, _)
\* CommitRevision's loop going on to the next IndexID when an alias upsert
\* fails.
CommitLoopContinues(st, revisionID, ord, i, outcome, log, steps) ==
    IF i > Len(ord) THEN [st |-> st, err |-> FALSE, log |-> log, steps |-> steps]
    ELSE IF outcome.aliasFailAt = i
    THEN CommitLoopContinues(st, revisionID, ord, i + 1, outcome, log, steps)
    ELSE LET step == CommitStep(st, revisionID, ord[i], outcome, log)
             done == Append(steps, [indexID  |-> ord[i],
                                    before   |-> st,
                                    after    |-> step.st,
                                    pruneErr |-> step.pruneErr])
         IN  CommitLoopContinues(step.st, revisionID, ord, i + 1, outcome,
                                 step.log, done)

RECURSIVE CommitLoop(_, _, _, _, _, _, _)
CommitLoop(st, revisionID, ord, i, outcome, log, steps) ==
    IF i > Len(ord) THEN [st |-> st, err |-> FALSE, log |-> log, steps |-> steps]
    ELSE IF outcome.aliasFailAt = i
    THEN [st |-> st, err |-> TRUE, log |-> log, steps |-> steps]
    ELSE LET step == CommitStep(st, revisionID, ord[i], outcome, log)
             done == Append(steps, [indexID  |-> ord[i],
                                    before   |-> st,
                                    after    |-> step.st,
                                    pruneErr |-> step.pruneErr])
         IN  IF step.err
             THEN [st |-> step.st, err |-> TRUE, log |-> step.log, steps |-> done]
             ELSE CommitLoop(step.st, revisionID, ord, i + 1, outcome, step.log,
                             done)

CommitRevision(st, revisionID, ord, outcome) ==
    CommitLoop(st, revisionID, ord, 1, outcome, <<>>, <<>>)

\* Every failing remote call of outcome is one CommitRevision makes: a
\* listing in an iteration it gets to, a deletion of a name that the
\* pruning of that iteration has in toDelete.
CommitOutcomeMade(steps, revisionID, outcome) ==
    /\ \A indexID \in outcome.pruneFail :
           \E i \in DOMAIN steps : steps[i].indexID = indexID
    /\ \A p \in outcome.delFail :
           \E i \in DOMAIN steps :
               /\ steps[i].indexID = p[1]
               /\ ~steps[i].pruneErr
               /\ p[2] \in PruneTargets(steps[i].before, p[1],
                                        formatCollectionName(p[1], revisionID))

\* RevertRevision; the deletion at position failAt of the range fails
\* (0: none does), as does the deletion of a collection that does not exist.
RECURSIVE RevertLoopContinues(_, _, _, _, _)
\* RevertRevision's loop going on to the next IndexID when a deletion fails.
RevertLoopContinues(st, revisionID, ord, i, failAt) ==
    IF i > Len(ord) THEN [st |-> st, err |-> FALSE]
    ELSE LET collectionName == formatCollectionName(ord[i], revisionID)
         IN  IF failAt = i \/ ~Exists(st, collectionName)
             THEN RevertLoopContinues(st, revisionID, ord, i + 1, failAt)
             ELSE RevertLoopContinues(DeleteCollection(st, collectionName),
                                      revisionID, ord, i + 1, failAt)

RECURSIVE RevertLoop(_, _, _, _, _)
RevertLoop(st, revisionID, ord, i, failAt) ==
    IF i > Len(ord) THEN [st |-> st, err |-> FALSE]
    ELSE LET collectionName == formatCollectionName(ord[i], revisionID)
         IN  IF failAt = i \/ ~Exists(st, collectionName)
             THEN [st |-> st, err |-> TRUE]
             ELSE RevertLoop(DeleteCollection(st, collectionName), revisionID, ord,
                             i + 1, failAt)

RevertRevision(st, revisionID, ord, failAt) ==
    RevertLoop(st, revisionID, ord, 1, failAt)

\* The deletion at position failAt is one RevertRevision makes: the loop
\* gets there, no deletion before it failing.
RevertFailureMade(st, revisionID, ord, failAt) ==
    \A j \in 1..(failAt - 1) : Exists(st, formatCollectionName(ord[j], revisionID))

\* Healthz
Healthz(bRevisionID) == bRevisionID # NoRevision

\* ------------------------------------ ContentServer.Provide (pkg/indexing)

DocumentTypes == {"page", "asset"}

\* The keys of documentProviderFuncs.
RegisteredTypes == {"page"}

\* The node identities of the content tree.
DocumentIDs == {"d1"}

\* The descriptor sequences getDocumentIDsByIndexID can return: every
\* identity at most once.
DocumentInfos ==
    UNION { {[i \in 1..n |-> [DocumentType |-> ty[i], DocumentID |-> id[i]]] :
                ty \in [1..n -> DocumentTypes],
                id \in {f \in [1..n -> DocumentIDs] :
                            \A i, j \in 1..n : f[i] = f[j] => i = j}} :
            n \in 0..Cardinality(DocumentIDs) }

\* What the provider function of each descriptor does.
ProviderOutcomes(n) == [1..n -> {"doc", "nil", "err"}]

ProvideFailures == {"none", "repo", "dimension", "uris"}

\* The descriptors of documentInfos a provider function is registered for.
Registered(documentInfos) ==
    {i \in 1..Len(documentInfos) :
        documentInfos[i].DocumentType \in RegisteredTypes}

\* The documents the provider functions produced, one after the other.
RECURSIVE Produced(_, _, _)
Produced(documentInfos, provider, i) ==
    IF i > Len(documentInfos) THEN <<>>
    ELSE (IF i \in Registered(documentInfos) /\ provider[i] = "doc"
          THEN <<documentInfos[i].DocumentID>> ELSE <<>>)
            \o Produced(documentInfos, provider, i + 1)

\* Provide appending what the provider functions produce instead of filling
\* slots.
ProvideAppending(documentInfos, provider, failing) ==
    IF failing # "none" THEN [documents |-> <<>>, err |-> TRUE, invoked |-> {}]
    ELSE [documents |-> Produced(documentInfos, provider, 1),
          err |-> FALSE, invoked |-> Registered(documentInfos)]

\* Provide looking the URIs up after the provider functions have run.
ProvideLateURIs(documentInfos, provider, failing) ==
    IF failing \in {"repo", "dimension"}
    THEN [documents |-> <<>>, err |-> TRUE, invoked |-> {}]
    ELSE [documents |->
            IF failing = "uris" THEN <<>>
            ELSE [i \in 1..Len(documentInfos) |->
                     IF i \in Registered(documentInfos) /\ provider[i] = "doc"
                     THEN documentInfos[i].DocumentID ELSE NilDoc],
          err |-> failing = "uris",
          invoked |-> Registered(documentInfos)]

\* Provide: an error, or one slot per descriptor; invoked is the set of
\* descriptors whose provider function was called.
Provide(documentInfos, provider, failing) ==
    IF failing # "none" THEN [documents |-> <<>>, err |-> TRUE, invoked |-> {}]
    ELSE [documents |->
            [i \in 1..Len(documentInfos) |->
                IF documentInfos[i].DocumentType \notin RegisteredTypes THEN NilDoc
                ELSE IF provider[i] = "doc" THEN documentInfos[i].DocumentID
                ELSE NilDoc],
          err |-> FALSE,
          invoked |-> Registered(documentInfos)]

\* ------------------------------------------- BaseIndexer.Run (pkg/indexing)

Runners == {"r1"}

VARIABLES
    cfg,              \* the configuration BaseAPI was constructed with
    store,            \* the backing store: collections, aliases, preset
    now,              \* the latest minute the clock was read at
    bRevisionID,      \* b.revisionID of each runner's BaseAPI
    pc,               \* where each runner's Run stands
    revisionID,       \* Run's revisionID
    indices,          \* the IndexIDs Run's loop has not reached yet
    documents,        \* Run's documents (between Provide and UpsertDocuments)
    tainted,          \* Run's tainted
    indexedDocuments, \* Run's indexedDocuments
    runErr,           \* what Run returned: TRUE for an error
    hist,             \* what each Run has called so far
    committed,        \* the IndexIDs a CommitRevision has succeeded for
    faults,           \* the failed remote calls to the backing store so far
    call,             \* the call a direct client of pkg/api has in progress
    ctx,              \* the context of each Run: "live", "done" once it is
                      \* cancelled, "ignored" once an iteration of the loop
                      \* has begun after that
    toDelete          \* toDelete of a pruneOldCollections under way (the
                      \* names its deletion loop has not reached yet)

vars == <<cfg, store, now, bRevisionID, pc, revisionID, indices, documents,
          tainted, indexedDocuments, runErr, hist, committed, faults, call, ctx,
          toDelete>>

\* No direct call is in progress, none has been made.
NoCall == [op |-> "none", n |-> 0]

NoCalls == [i \in IndexIDs |-> 0]

\* The record of one Run: the state of the store when it started and the
\* calls it has made.
FreshHist(st) ==
    [aliasBefore |-> st.alias,
     initCalls   |-> 0, initOk |-> FALSE, initRev |-> NoRevision,
     indicesOk   |-> FALSE,
     provided    |-> NoCalls, upserted |-> NoCalls,
     provideErr  |-> {}, upsertErr |-> {},
     rejected    |-> {},
     realDoc     |-> FALSE,
     commits     |-> 0, reverts |-> 0, decidedFor |-> NoRevision,
     decidedErr  |-> FALSE,
     commitLog   |-> <<>>]

Init ==
    /\ cfg \in Configs
    /\ store = EmptyStore
    /\ now = 0
    /\ bRevisionID = [r \in Runners |-> NoRevision]
    /\ pc = [r \in Runners |-> "idle"]
    /\ revisionID = [r \in Runners |-> NoRevision]
    /\ indices = [r \in Runners |-> <<>>]
    /\ documents = [r \in Runners |-> <<>>]
    /\ tainted = [r \in Runners |-> FALSE]
    /\ indexedDocuments = [r \in Runners |-> 0]
    /\ runErr = [r \in Runners |-> FALSE]
    /\ hist = [r \in Runners |-> FreshHist(EmptyStore)]
    /\ ctx = [r \in Runners |-> "live"]
    /\ toDelete = [r \in Runners |-> <<>>]
    /\ committed = {}
    /\ faults = 0
    /\ call = NoCall

\* Run going on whatever Initialize returned.
InitializeNeverAborts(err, rev) == FALSE

\* Run's check of Initialize's result (line 35).
InitializeAborts(err, rev) == err \/ rev = NoRevision

\* Step 1 of Run: Initialize, at a minute t not before the last one read.
RunInitialize(r) ==
    /\ pc[r] = "idle"
    /\ \E t \in now..MaxMinute, ord \in Orders(cfg.collections) :
       \E fail \in InitFailures(Len(ord)) :
         LET res == Initialize(store, cfg, bRevisionID[r], t, ord, fail)
         IN  /\ InitFailureMade(store, cfg, t, ord, fail)
             /\ faults + (IF fail.at = "none" THEN 0 ELSE 1) <= MaxFaults
             /\ faults' = faults + (IF fail.at = "none" THEN 0 ELSE 1)
             /\ store' = res.st
             /\ now' = t
             /\ bRevisionID' = [bRevisionID EXCEPT ![r] = res.bRevisionID]
             /\ revisionID' = [revisionID EXCEPT ![r] = res.revisionID]
             /\ hist' = [hist EXCEPT ![r] =
                            [FreshHist(store) EXCEPT !.initCalls = 1,
                                                     !.initOk = ~res.err,
                                                     !.initRev = res.revisionID]]
             /\ IF InitializeAborts(res.err, res.revisionID)
                THEN /\ pc' = [pc EXCEPT ![r] = "returned"]
                     /\ runErr' = [runErr EXCEPT ![r] = res.err]
                ELSE /\ pc' = [pc EXCEPT ![r] = "indices"]
                     /\ runErr' = [runErr EXCEPT ![r] = FALSE]
    /\ indices' = [indices EXCEPT ![r] = <<>>]
    /\ documents' = [documents EXCEPT ![r] = <<>>]
    /\ tainted' = [tainted EXCEPT ![r] = FALSE]
    /\ indexedDocuments' = [indexedDocuments EXCEPT ![r] = 0]
    /\ UNCHANGED <<toDelete, ctx, call, cfg, committed>>

\* Step 2 of Run: Indices.
RunIndices(r) ==
    /\ pc[r] = "indices"
    /\ \E ord \in Orders(cfg.collections) :
         LET res == Indices(cfg, ord)
         IN  IF res.err
             THEN /\ pc' = [pc EXCEPT ![r] = "returned"]
                  /\ runErr' = [runErr EXCEPT ![r] = TRUE]
                  /\ UNCHANGED <<indices, hist>>
             ELSE /\ pc' = [pc EXCEPT ![r] = "loop"]
                  /\ indices' = [indices EXCEPT ![r] = res.indices]
                  /\ hist' = [hist EXCEPT ![r].indicesOk = TRUE]
                  /\ UNCHANGED runErr
    /\ UNCHANGED <<toDelete, ctx, call, cfg, store, now, bRevisionID, revisionID, documents, tainted,
                   indexedDocuments, committed, faults>>

\* Run returning as soon as Provide fails.
ProvideErrorReturns == "returned"

\* Where Run goes when Provide fails: on to the next iteration (continue).
ProvideErrorPc == "loop"

\* What is left of the loop after Provide failed for the head of rest
\* (continue).
AfterProvideError(rest) == Tail(rest)

\* Run leaving the loop as soon as UpsertDocuments fails (break).
AfterUpsertErrorBreak(rest) == <<>>

\* What is left of the loop after UpsertDocuments failed for the head of
\* rest (continue).
AfterUpsertError(rest) == Tail(rest)

\* Run starting its count over when an index fails.
CountAfterFailureReset(count) == 0

\* indexedDocuments after an iteration that Provide or UpsertDocuments
\* failed in (lines 54-58 and 61-71 leave it alone).
CountAfterFailure(count) == count

\* Step 3 of Run, first half of an iteration: Provide for the next IndexID.
RunProvide(r) ==
    /\ pc[r] = "loop"
    /\ indices[r] # <<>>
    /\ \E infos \in DocumentInfos, failing \in ProvideFailures :
       \E provider \in ProviderOutcomes(Len(infos)) :
         LET indexID == Head(indices[r])
             res     == Provide(infos, provider, failing)
         IN  /\ ctx' = [ctx EXCEPT ![r] = IF @ = "live" THEN "live" ELSE "ignored"]
             /\ hist' = [hist EXCEPT
                           ![r].provided[indexID] = @ + 1,
                           ![r].provideErr = IF res.err THEN @ \cup {indexID} ELSE @,
                           ![r].realDoc = @ \/ (\E i \in DOMAIN res.documents :
                                                   res.documents[i] # NilDoc)]
             /\ IF res.err
                THEN /\ tainted' = [tainted EXCEPT ![r] = TRUE]
                     /\ indices' = [indices EXCEPT ![r] = AfterProvideError(@)]
                     /\ pc' = [pc EXCEPT ![r] = ProvideErrorPc]
                     /\ indexedDocuments' =
                          [indexedDocuments EXCEPT ![r] = CountAfterFailure(@)]
                     /\ UNCHANGED documents
                ELSE /\ documents' = [documents EXCEPT ![r] = res.documents]
                     /\ pc' = [pc EXCEPT ![r] = "upsert"]
                     /\ UNCHANGED <<tainted, indices, indexedDocuments>>
    /\ UNCHANGED <<toDelete, call, cfg, store, now, bRevisionID, revisionID,
                   runErr, committed, faults>>

\* Step 3 of Run, second half of an iteration: UpsertDocuments, then the
\* count.
RunUpsert(r) ==
    /\ pc[r] = "upsert"
    /\ \E outcome \in ImportOutcomes(Len(documents[r])) :
         LET indexID == Head(indices[r])
             res     == UpsertDocuments(store, revisionID[r], indexID, documents[r],
                                        outcome)
         IN  /\ ImportOutcomeMade(documents[r], outcome)
             /\ faults + ImportFaults(documents[r], outcome) <= MaxFaults
             /\ faults' = faults + ImportFaults(documents[r], outcome)
             /\ store' = res.st
             /\ hist' = [hist EXCEPT
                           ![r].upserted[indexID] = @ + 1,
                           ![r].upsertErr = IF res.err THEN @ \cup {indexID} ELSE @,
                           ![r].rejected =
                               IF ImportFaults(documents[r], outcome) > 0
                               THEN @ \cup {indexID} ELSE @]
             /\ IF res.err
                THEN /\ tainted' = [tainted EXCEPT ![r] = TRUE]
                     /\ indices' = [indices EXCEPT ![r] = AfterUpsertError(@)]
                     /\ indexedDocuments' =
                          [indexedDocuments EXCEPT ![r] = CountAfterFailure(@)]
                ELSE /\ indexedDocuments' =
                          [indexedDocuments EXCEPT ![r] = @ + Len(documents[r])]
                     /\ indices' = [indices EXCEPT ![r] = Tail(@)]
                     /\ UNCHANGED tainted
    /\ pc' = [pc EXCEPT ![r] = "loop"]
    /\ documents' = [documents EXCEPT ![r] = <<>>]
    /\ UNCHANGED <<toDelete, ctx, call, cfg, now, bRevisionID, revisionID, runErr, committed>>

\* The condition of step 4 without the zero-document guard.
ShouldCommitUntainted(isTainted, count) == ~isTainted

\* The condition of step 4 (line 81).
ShouldCommit(isTainted, count) == ~isTainted /\ count > 0

\* Step 4 of Run, first branch: CommitRevision.
RunCommit(r) ==
    /\ pc[r] = "loop"
    /\ indices[r] = <<>>
    /\ ShouldCommit(tainted[r], indexedDocuments[r])
    /\ \E ord \in Orders(cfg.collections),
          outcome \in CommitOutcomes(store, cfg, revisionID[r], MaxFaults - faults) :
         LET res == CommitRevision(store, revisionID[r], ord, outcome)
         IN  /\ faults + CommitFaults(outcome) <= MaxFaults
             /\ CommitOutcomeMade(res.steps, revisionID[r], outcome)
             /\ faults' = faults + CommitFaults(outcome)
             /\ store' = res.st
             /\ runErr' = [runErr EXCEPT ![r] = res.err]
             /\ committed' = IF res.err THEN committed
                             ELSE committed \cup cfg.collections
             /\ hist' = [hist EXCEPT ![r].commits = @ + 1,
                                     ![r].decidedFor = revisionID[r],
                                     ![r].decidedErr = res.err,
                                     ![r].commitLog = res.log]
    /\ pc' = [pc EXCEPT ![r] = "returned"]
    /\ UNCHANGED <<toDelete, ctx, call, cfg, now, bRevisionID, revisionID, indices, documents, tainted,
                   indexedDocuments>>

\* Run reporting the taint of a reverted build as an error.
RevertReturnsTaint(err, isTainted) == err \/ isTainted

\* What Run returns after RevertRevision (lines 93-101): its error if it
\* failed, nil otherwise.
RevertReturns(err, isTainted) == err

\* Step 4 of Run, second branch: RevertRevision.
RunRevert(r) ==
    /\ pc[r] = "loop"
    /\ indices[r] = <<>>
    /\ ~ShouldCommit(tainted[r], indexedDocuments[r])
    /\ \E ord \in Orders(cfg.collections), failAt \in 0..Cardinality(cfg.collections) :
         LET res == RevertRevision(store, revisionID[r], ord, failAt)
         IN  /\ RevertFailureMade(store, revisionID[r], ord, failAt)
             /\ faults + (IF failAt = 0 THEN 0 ELSE 1) <= MaxFaults
             /\ faults' = faults + (IF failAt = 0 THEN 0 ELSE 1)
             /\ store' = res.st
             /\ runErr' = [runErr EXCEPT ![r] = RevertReturns(res.err, tainted[r])]
             /\ hist' = [hist EXCEPT ![r].reverts = @ + 1,
                                     ![r].decidedFor = revisionID[r],
                                     ![r].decidedErr = res.err]
    /\ pc' = [pc EXCEPT ![r] = "returned"]
    /\ UNCHANGED <<toDelete, ctx, call, cfg, now, bRevisionID, revisionID, indices, documents, tainted,
                   indexedDocuments, committed>>

\* Run has returned; the runner is free to start the next build.
RunReturn(r) ==
    /\ pc[r] = "returned"
    /\ pc' = [pc EXCEPT ![r] = "idle"]
    /\ revisionID' = [revisionID EXCEPT ![r] = NoRevision]
    /\ indices' = [indices EXCEPT ![r] = <<>>]
    /\ tainted' = [tainted EXCEPT ![r] = FALSE]
    /\ indexedDocuments' = [indexedDocuments EXCEPT ![r] = 0]
    /\ runErr' = [runErr EXCEPT ![r] = FALSE]
    /\ hist' = [hist EXCEPT ![r] = FreshHist(EmptyStore)]
    /\ ctx' = [ctx EXCEPT ![r] = "live"]
    /\ UNCHANGED <<toDelete, call, cfg, store, now, bRevisionID, documents, committed,
                   faults>>

Next ==
    \E r \in Runners :
        \/ RunInitialize(r)
        \/ RunIndices(r)
        \/ RunProvide(r)
        \/ RunUpsert(r)
        \/ RunCommit(r)
        \/ RunRevert(r)
        \/ RunReturn(r)

Spec == Init /\ [][Next]_vars

\* ------------------------------------------------ cancellation of a Run
\* The caller of Run cancels the context it passed, at any point of the
\* Run.  Run hands ctx on to Provide, UpsertDocuments, CommitRevision and
\* RevertRevision and never looks at it itself; what those calls do is the
\* non-determinism they already have.

RunCancel(r) ==
    /\ pc[r] \notin {"idle", "returned"}
    /\ ctx[r] = "live"
    /\ ctx' = [ctx EXCEPT ![r] = "done"]
    /\ UNCHANGED <<toDelete, cfg, store, now, bRevisionID, pc, revisionID, indices,
                   documents, tainted, indexedDocuments, runErr, hist, committed,
                   faults, call>>

CancelNext ==
    \/ Next
    \/ \E r \in Runners : RunCancel(r)

CancelSpec == Init /\ [][CancelNext]_vars

\* ------------------------------------------------------ concurrent builds
\* Two BaseIndexers, each with its own BaseAPI, run one build each against
\* the same backing store and the same two IndexIDs.  Nothing in pkg/api or
\* pkg/indexing serialises them, so the loops of Initialize, CommitRevision
\* and RevertRevision are taken one remote call at a time: indices holds
\* what is left of the range, pc where the iteration stands, toDelete what
\* is left of a deletion loop.  The remote calls of these loops do not fail
\* here other than by what the store holds: Create for a name that exists
\* and Delete for a name that does not.

Builders == Runners \cup {"r2"}

NoFailure == [at |-> "none", k |-> 0]

ConcurrentInit ==
    /\ cfg = [collections |-> {IdxW, IdxWD}, preset |-> FALSE]
    /\ store = EmptyStore
    /\ now = 0
    /\ bRevisionID = [r \in Builders |-> NoRevision]
    /\ pc = [r \in Builders |-> "idle"]
    /\ revisionID = [r \in Builders |-> NoRevision]
    /\ indices = [r \in Builders |-> <<>>]
    /\ documents = [r \in Builders |-> <<>>]
    /\ tainted = [r \in Builders |-> FALSE]
    /\ indexedDocuments = [r \in Builders |-> 0]
    /\ runErr = [r \in Builders |-> FALSE]
    /\ hist = [r \in Builders |-> FreshHist(EmptyStore)]
    /\ ctx = [r \in Builders |-> "live"]
    /\ toDelete = [r \in Builders |-> <<>>]
    /\ committed = {}
    /\ faults = 0
    /\ call = [op |-> "none", n |-> 0, overlap |-> FALSE]

\* Run calls Initialize, which reads the clock (steps 1 to 3 change
\* nothing).  call.overlap records that the other build was under way.
BuildInitialize(r) ==
    /\ pc[r] = "idle"
    /\ \E t \in now..MaxMinute, ord \in Orders(cfg.collections) :
         /\ now' = t
         /\ revisionID' = [revisionID EXCEPT ![r] = generateRevisionID(t)]
         /\ indices' = [indices EXCEPT ![r] = ord]
    /\ pc' = [pc EXCEPT ![r] = "initialize"]
    /\ call' = [call EXCEPT !.overlap =
                    @ \/ \E o \in Builders \ {r} : pc[o] \notin {"idle", "returned"}]
    /\ UNCHANGED <<toDelete, ctx, cfg, store, bRevisionID, documents, tainted,
                   indexedDocuments, runErr, hist, committed, faults>>

\* Initialize returning after the first IndexID of its range.
AfterInitializeStepReturn(rest) == <<>>

\* What is left of Initialize's range after the iteration for the head of
\* rest.
AfterInitializeStep(rest) == Tail(rest)

\* createCollectionIfNotExists for the head of Initialize's range, first
\* half: fetchExistingCollections and the look-up of the name.
BuildFetchExisting(r) ==
    /\ pc[r] = "initialize"
    /\ indices[r] # <<>>
    /\ LET collectionName == formatCollectionName(Head(indices[r]), revisionID[r])
       IN  pc' = [pc EXCEPT ![r] = IF Exists(store, collectionName)
                                   THEN "alias" ELSE "create"]
    /\ UNCHANGED <<toDelete, ctx, call, cfg, store, now, bRevisionID, revisionID,
                   indices, documents, tainted, indexedDocuments, runErr, hist,
                   committed, faults>>

\* createCollectionIfNotExists, second half: Collections().Create, which
\* the store rejects for a name that exists by now; Initialize then
\* returns "" and the error, and Run returns the error.
BuildCreate(r) ==
    /\ pc[r] = "create"
    /\ LET collectionName == formatCollectionName(Head(indices[r]), revisionID[r])
       IN  IF Exists(store, collectionName)
           THEN /\ pc' = [pc EXCEPT ![r] = "returned"]
                /\ revisionID' = [revisionID EXCEPT ![r] = NoRevision]
                /\ indices' = [indices EXCEPT ![r] = <<>>]
                /\ runErr' = [runErr EXCEPT ![r] = TRUE]
                /\ UNCHANGED store
           ELSE /\ store' = CreateCollection(store, collectionName)
                /\ pc' = [pc EXCEPT ![r] = "alias"]
                /\ UNCHANGED <<revisionID, indices, runErr>>
    /\ UNCHANGED <<toDelete, ctx, call, cfg, now, bRevisionID, documents, tainted,
                   indexedDocuments, hist, committed, faults>>

\* ensureAliasMapping for the head of Initialize's range: Aliases().Upsert;
\* the iteration is over.
BuildEnsureAlias(r) ==
    /\ pc[r] = "alias"
    /\ LET indexID        == Head(indices[r])
           collectionName == formatCollectionName(indexID, revisionID[r])
       IN  store' = ensureAliasMapping(store, indexID, collectionName, "none").st
    /\ indices' = [indices EXCEPT ![r] = AfterInitializeStep(@)]
    /\ pc' = [pc EXCEPT ![r] = "initialize"]
    /\ UNCHANGED <<toDelete, ctx, call, cfg, now, bRevisionID, revisionID, documents,
                   tainted, indexedDocuments, runErr, hist, committed, faults>>

\* Step 5 of Initialize and its return to Run.
BuildInitialized(r) ==
    /\ pc[r] = "initialize"
    /\ indices[r] = <<>>
    /\ bRevisionID' = [bRevisionID EXCEPT ![r] = revisionID[r]]
    /\ pc' = [pc EXCEPT ![r] = "indices"]
    /\ UNCHANGED <<toDelete, ctx, call, cfg, store, now, revisionID, indices, documents,
                   tainted, indexedDocuments, runErr, hist, committed, faults>>

\* Step 2 of Run: Indices, which does not fail for two IndexIDs.
BuildIndices(r) ==
    /\ pc[r] = "indices"
    /\ \E ord \in Orders(cfg.collections) :
         indices' = [indices EXCEPT ![r] = Indices(cfg, ord).indices]
    /\ pc' = [pc EXCEPT ![r] = "loop"]
    /\ UNCHANGED <<toDelete, ctx, call, cfg, store, now, bRevisionID, revisionID, documents,
                   tainted, indexedDocuments, runErr, hist, committed, faults>>

\* What Provide is given here: one page, whose provider function returns a
\* document; the fetch of the repo succeeds or fails.
BuildDocumentInfos == {<<[DocumentType |-> "page", DocumentID |-> "d1"]>>}

\* First half of an iteration of Run's loop: Provide, whose remote calls
\* (GetRepo, GetURIs) go to the content server and leave the store alone.
BuildProvide(r) ==
    /\ pc[r] = "loop"
    /\ indices[r] # <<>>
    /\ \E infos \in BuildDocumentInfos, failing \in {"none", "repo"} :
         LET provided == Provide(infos, [i \in DOMAIN infos |-> "doc"], failing)
         IN  IF provided.err
             THEN /\ tainted' = [tainted EXCEPT ![r] = TRUE]
                  /\ indices' = [indices EXCEPT ![r] = AfterProvideError(@)]
                  /\ UNCHANGED <<pc, documents>>
             ELSE /\ documents' = [documents EXCEPT ![r] = provided.documents]
                  /\ pc' = [pc EXCEPT ![r] = "upsert"]
                  /\ UNCHANGED <<tainted, indices>>
    /\ UNCHANGED <<toDelete, ctx, call, cfg, store, now, bRevisionID, revisionID,
                   indexedDocuments, runErr, hist, committed, faults>>

\* Second half of the iteration: UpsertDocuments against the store as it is
\* by now, then the count.  The import is accepted if the generation is
\* there.
BuildUpsert(r) ==
    /\ pc[r] = "upsert"
    /\ LET indexID  == Head(indices[r])
           accepted == [rejected |-> FALSE, ok |-> DOMAIN documents[r]]
           upserted == UpsertDocuments(store, revisionID[r], indexID,
                                       documents[r], accepted)
       IN  /\ store' = upserted.st
           /\ IF upserted.err
              THEN /\ tainted' = [tainted EXCEPT ![r] = TRUE]
                   /\ indices' = [indices EXCEPT ![r] = AfterUpsertError(@)]
                   /\ UNCHANGED indexedDocuments
              ELSE /\ indexedDocuments' =
                        [indexedDocuments EXCEPT ![r] = @ + Len(documents[r])]
                   /\ indices' = [indices EXCEPT ![r] = Tail(@)]
                   /\ UNCHANGED tainted
    /\ pc' = [pc EXCEPT ![r] = "loop"]
    /\ documents' = [documents EXCEPT ![r] = <<>>]
    /\ UNCHANGED <<toDelete, ctx, call, cfg, now, bRevisionID, revisionID,
                   runErr, hist, committed, faults>>

\* Step 4 of Run: the choice between CommitRevision and RevertRevision,
\* and the order of the range of the one chosen.
BuildDecide(r) ==
    /\ pc[r] = "loop"
    /\ indices[r] = <<>>
    /\ \E ord \in Orders(cfg.collections) :
         indices' = [indices EXCEPT ![r] = ord]
    /\ IF ShouldCommit(tainted[r], indexedDocuments[r])
       THEN /\ pc' = [pc EXCEPT ![r] = "commit"]
            /\ hist' = [hist EXCEPT ![r].commits = @ + 1,
                                    ![r].decidedFor = revisionID[r]]
       ELSE /\ pc' = [pc EXCEPT ![r] = "revert"]
            /\ hist' = [hist EXCEPT ![r].reverts = @ + 1,
                                    ![r].decidedFor = revisionID[r]]
    /\ UNCHANGED <<toDelete, ctx, call, cfg, store, now, bRevisionID, revisionID, documents,
                   tainted, indexedDocuments, runErr, committed, faults>>

\* CommitRevision for the head of its range: Aliases().Upsert.
BuildUpsertAlias(r) ==
    /\ pc[r] = "commit"
    /\ indices[r] # <<>>
    /\ LET alias == Head(indices[r])
       IN  store' = UpsertAlias(store, alias, formatCollectionName(alias, revisionID[r]))
    /\ pc' = [pc EXCEPT ![r] = "prune"]
    /\ UNCHANGED <<toDelete, ctx, call, cfg, now, bRevisionID, revisionID, indices,
                   documents, tainted, indexedDocuments, runErr, hist, committed,
                   faults>>

\* pruneOldCollections, steps 1 and 2: Collections().Retrieve, the choice of
\* the names and their order.  With nothing to delete the iteration of
\* CommitRevision is over.
BuildPruneRetrieve(r) ==
    /\ pc[r] = "prune"
    /\ LET alias          == Head(indices[r])
           oldCollections == SortDescending(
                                 OldCollections(store, alias,
                                     formatCollectionName(alias, revisionID[r])))
       IN  IF Len(oldCollections) > 1
           THEN /\ toDelete' = [toDelete EXCEPT ![r] = Tail(oldCollections)]
                /\ pc' = [pc EXCEPT ![r] = "delete"]
                /\ UNCHANGED indices
           ELSE /\ pc' = [pc EXCEPT ![r] = "commit"]
                /\ indices' = [indices EXCEPT ![r] = Tail(@)]
                /\ UNCHANGED toDelete
    /\ UNCHANGED <<ctx, call, cfg, store, now, bRevisionID, revisionID, documents,
                   tainted, indexedDocuments, runErr, hist, committed, faults>>

\* pruneOldCollections, step 3: one Collection(col).Delete; for a name that
\* is not there any more it fails, which is logged.  After the last one the
\* iteration of CommitRevision is over.
BuildPruneDelete(r) ==
    /\ pc[r] = "delete"
    /\ store' = DeleteEach(store, <<Head(toDelete[r])>>, {})
    /\ toDelete' = [toDelete EXCEPT ![r] = Tail(@)]
    /\ IF Tail(toDelete[r]) = <<>>
       THEN /\ pc' = [pc EXCEPT ![r] = "commit"]
            /\ indices' = [indices EXCEPT ![r] = Tail(@)]
       ELSE UNCHANGED <<pc, indices>>
    /\ UNCHANGED <<ctx, call, cfg, now, bRevisionID, revisionID, documents,
                   tainted, indexedDocuments, runErr, hist, committed, faults>>

\* One iteration of RevertRevision: the deletion of one generation, which
\* fails when the generation is not there.
BuildRevertStep(r) ==
    /\ pc[r] = "revert"
    /\ indices[r] # <<>>
    /\ LET res == RevertRevision(store, revisionID[r], <<Head(indices[r])>>, 0)
       IN  /\ store' = res.st
           /\ IF res.err
              THEN /\ pc' = [pc EXCEPT ![r] = "returned"]
                   /\ indices' = [indices EXCEPT ![r] = <<>>]
                   /\ runErr' = [runErr EXCEPT ![r] = TRUE]
                   /\ hist' = [hist EXCEPT ![r].decidedErr = TRUE]
              ELSE /\ indices' = [indices EXCEPT ![r] = Tail(@)]
                   /\ UNCHANGED <<pc, runErr, hist>>
    /\ UNCHANGED <<toDelete, ctx, call, cfg, now, bRevisionID, revisionID, documents,
                   tainted, indexedDocuments, committed, faults>>

\* CommitRevision or RevertRevision is through its range; Run returns nil.
BuildReturn(r) ==
    /\ pc[r] \in {"commit", "revert"}
    /\ indices[r] = <<>>
    /\ pc' = [pc EXCEPT ![r] = "returned"]
    /\ committed' = IF pc[r] = "commit" THEN committed \cup cfg.collections
                    ELSE committed
    /\ UNCHANGED <<toDelete, ctx, call, cfg, store, now, bRevisionID, revisionID, indices,
                   documents, tainted, indexedDocuments, runErr, hist, faults>>

ConcurrentNext ==
    \E r \in Builders :
        \/ BuildInitialize(r)
        \/ BuildFetchExisting(r)
        \/ BuildCreate(r)
        \/ BuildEnsureAlias(r)
        \/ BuildInitialized(r)
        \/ BuildIndices(r)
        \/ BuildProvide(r)
        \/ BuildUpsert(r)
        \/ BuildDecide(r)
        \/ BuildUpsertAlias(r)
        \/ BuildPruneRetrieve(r)
        \/ BuildPruneDelete(r)
        \/ BuildRevertStep(r)
        \/ BuildReturn(r)

ConcurrentSpec == ConcurrentInit /\ [][ConcurrentNext]_vars

\* ------------------------------------------ direct clients of pkg/api
\* BaseAPI is exported: a client other than BaseIndexer.Run may call its
\* methods in any order and with any RevisionID.  Each call is one step that
\* leaves its record in call (n counts the calls made); ApiReturn hands
\* control back to the client.

\* The RevisionIDs a client can hold: one per minute of the clock.
Revisions == {generateRevisionID(t) : t \in 0..MaxMinute}

\* The document slices a client can pass to UpsertDocuments.
DocumentSeqs ==
    UNION {[1..n -> DocumentIDs \cup {NilDoc}] : n \in 0..Cardinality(DocumentIDs)}

\* The client's BaseAPI instance.
Client == CHOOSE r \in Runners : TRUE

ApiInitialize ==
    /\ call.op = "none" /\ call.n < MaxCalls
    /\ \E t \in now..MaxMinute, ord \in Orders(cfg.collections) :
       \E fail \in InitFailures(Len(ord)) :
         LET res == Initialize(store, cfg, bRevisionID[Client], t, ord, fail)
         IN  /\ InitFailureMade(store, cfg, t, ord, fail)
             /\ faults + (IF fail.at = "none" THEN 0 ELSE 1) <= MaxFaults
             /\ faults' = faults + (IF fail.at = "none" THEN 0 ELSE 1)
             /\ store' = res.st
             /\ now' = t
             /\ bRevisionID' = [bRevisionID EXCEPT ![Client] = res.bRevisionID]
             /\ call' = [n |-> call.n + 1, op |-> "Initialize", before |-> store, ord |-> ord,
                         fail |-> fail, newRevisionID |-> generateRevisionID(t),
                         revisionID |-> res.revisionID, err |-> res.err]
    /\ UNCHANGED <<toDelete, ctx, cfg, pc, revisionID, indices, documents, tainted,
                   indexedDocuments, runErr, hist, committed>>

ApiUpsertDocuments ==
    /\ call.op = "none" /\ call.n < MaxCalls
    /\ \E rev \in Revisions, indexID \in cfg.collections, docs \in DocumentSeqs :
       \E outcome \in ImportOutcomes(Len(docs)) :
         LET res == UpsertDocuments(store, rev, indexID, docs, outcome)
         IN  /\ ImportOutcomeMade(docs, outcome)
             /\ faults + ImportFaults(docs, outcome) <= MaxFaults
             /\ faults' = faults + ImportFaults(docs, outcome)
             /\ store' = res.st
             /\ call' = [n |-> call.n + 1, op |-> "UpsertDocuments", before |-> store,
                         revisionID |-> rev, indexID |-> indexID,
                         documents |-> docs, outcome |-> outcome, err |-> res.err]
    /\ UNCHANGED <<toDelete, ctx, cfg, now, bRevisionID, pc, revisionID, indices, documents,
                   tainted, indexedDocuments, runErr, hist, committed>>

ApiCommitRevision ==
    /\ call.op = "none" /\ call.n < MaxCalls
    /\ \E rev \in Revisions, ord \in Orders(cfg.collections) :
       \E outcome \in CommitOutcomes(store, cfg, rev, MaxFaults - faults) :
         LET res == CommitRevision(store, rev, ord, outcome)
         IN  /\ faults + CommitFaults(outcome) <= MaxFaults
             /\ CommitOutcomeMade(res.steps, rev, outcome)
             /\ faults' = faults + CommitFaults(outcome)
             /\ store' = res.st
             /\ committed' = IF res.err THEN committed
                             ELSE committed \cup cfg.collections
             /\ call' = [n |-> call.n + 1, op |-> "CommitRevision", before |-> store,
                         revisionID |-> rev, ord |-> ord, outcome |-> outcome,
                         steps |-> res.steps, err |-> res.err]
    /\ UNCHANGED <<toDelete, ctx, cfg, now, bRevisionID, pc, revisionID, indices, documents,
                   tainted, indexedDocuments, runErr, hist>>

ApiRevertRevision ==
    /\ call.op = "none" /\ call.n < MaxCalls
    /\ \E rev \in Revisions, ord \in Orders(cfg.collections),
          failAt \in 0..Cardinality(cfg.collections) :
         LET res == RevertRevision(store, rev, ord, failAt)
         IN  /\ RevertFailureMade(store, rev, ord, failAt)
             /\ faults + (IF failAt = 0 THEN 0 ELSE 1) <= MaxFaults
             /\ faults' = faults + (IF failAt = 0 THEN 0 ELSE 1)
             /\ store' = res.st
             /\ call' = [n |-> call.n + 1, op |-> "RevertRevision", before |-> store,
                         revisionID |-> rev, ord |-> ord, failAt |-> failAt,
                         err |-> res.err]
    /\ UNCHANGED <<toDelete, ctx, cfg, now, bRevisionID, pc, revisionID, indices, documents,
                   tainted, indexedDocuments, runErr, hist, committed>>

\* The call has returned to the client.
ApiReturn ==
    /\ call.op # "none"
    /\ call' = [op |-> "none", n |-> call.n]
    /\ UNCHANGED <<toDelete, ctx, cfg, store, now, bRevisionID, pc, revisionID, indices,
                   documents, tainted, indexedDocuments, runErr, hist, committed,
                   faults>>

ApiNext ==
    \/ ApiInitialize
    \/ ApiUpsertDocuments
    \/ ApiCommitRevision
    \/ ApiRevertRevision
    \/ ApiReturn

ApiSpec == Init /\ [][ApiNext]_vars

\* ------------------------------------------------- naming (part_002)
\* formatCollectionName and extractRevisionID applied to drawn inputs: an
\* IndexID and a RevisionID to format and parse back, or a collection name
\* as the store may list it (of this or of unrelated naming) to parse.

\* The minutes of the clock the RevisionIDs are drawn from: minutes of the
\* first day, and the last and first minutes around a change of day (to the
\* 2nd and to the 10th), of month (to February and to October) and of year.
NamingMinutes ==
    {0, 9, 10, 59, 60, 600, 1439, 1440, 12959, 12960, 44639, 44640,
     393119, 393120, 525599, 525600}

\* The last minute before and the first minute of each change of the dial
\* in the zones, in elapsed minutes.
NamingTransitions ==
    UNION {{DaylightSaving(zone)[i] - 1, DaylightSaving(zone)[i]} :
               zone \in Zones \ {"UTC"}, i \in 1..2}

\* Instants, in seconds elapsed from 2026-01-01 00:00 of the zone: the
\* first and the last second of each of the minutes.
NamingInstants ==
    {60 * m + sec : m \in NamingMinutes \cup NamingTransitions, sec \in {0, 59}}

NamingRevisions == {generateRevisionID(t) : t \in NamingMinutes}

\* What can follow an IndexID in a collection name: a RevisionID, one cut
\* short or drawn out by a character, nothing.
NamingSuffixes ==
    NamingRevisions
        \cup {SubSeq(rev, 1, Len(rev) - 1) : rev \in NamingRevisions}
        \cup {rev \o <<"0">> : rev \in NamingRevisions}
        \cup {<<>>}

NamingNames ==
    {id \o <<Dash>> \o sfx : id \in IndexIDs, sfx \in NamingSuffixes}
        \cup {id \o sfx : id \in IndexIDs, sfx \in NamingSuffixes}

NamingInputs ==
    {[op |-> "format", n |-> 0, indexID |-> id, revisionID |-> rev] :
        id \in IndexIDs, rev \in NamingRevisions}
    \cup
    {[op |-> "extract", n |-> 0, collectionName |-> c, name |-> id,
      formatted |-> FALSE] : c \in NamingNames, id \in IndexIDs}
    \cup
    {[op |-> "generate", n |-> 0, zone |-> zone, first |-> i1, second |-> i2] :
        zone \in Zones, i1 \in NamingInstants, i2 \in NamingInstants}

NamingInit ==
    /\ cfg = [collections |-> IndexIDs, preset |-> FALSE]
    /\ store = EmptyStore
    /\ now = 0
    /\ bRevisionID = [r \in Runners |-> NoRevision]
    /\ pc = [r \in Runners |-> "idle"]
    /\ revisionID = [r \in Runners |-> NoRevision]
    /\ indices = [r \in Runners |-> <<>>]
    /\ documents = [r \in Runners |-> <<>>]
    /\ tainted = [r \in Runners |-> FALSE]
    /\ indexedDocuments = [r \in Runners |-> 0]
    /\ runErr = [r \in Runners |-> FALSE]
    /\ hist = [r \in Runners |-> FreshHist(EmptyStore)]
    /\ ctx = [r \in Runners |-> "live"]
    /\ toDelete = [r \in Runners |-> <<>>]
    /\ committed = {}
    /\ faults = 0
    /\ call \in NamingInputs

\* formatCollectionName; the name is then parsed against any IndexID.
NamingFormat ==
    /\ call.op = "format"
    /\ \E id \in IndexIDs :
         call' = [op |-> "extract", n |-> 0,
                  collectionName |-> formatCollectionName(call.indexID,
                                                          call.revisionID),
                  name |-> id,
                  formatted |-> TRUE,
                  indexID |-> call.indexID, revisionID |-> call.revisionID]
    /\ UNCHANGED <<toDelete, ctx, cfg, store, now, bRevisionID, pc, revisionID, indices,
                   documents, tainted, indexedDocuments, runErr, hist, committed,
                   faults>>

\* extractRevisionID
NamingExtract ==
    /\ call.op = "extract"
    /\ call' = [call EXCEPT !.op = "extracted"]
                 @@ [result |-> extractRevisionID(call.collectionName, call.name)]
    /\ UNCHANGED <<toDelete, ctx, cfg, store, now, bRevisionID, pc, revisionID, indices,
                   documents, tainted, indexedDocuments, runErr, hist, committed,
                   faults>>

\* generateRevisionID at two instants, in a process of the zone call.zone.
NamingGenerate ==
    /\ call.op = "generate"
    /\ call' = [call EXCEPT !.op = "generated"]
                 @@ [r1 |-> generateRevisionID(
                                LocalMinute(call.zone, ClockMinute(call.first))),
                     r2 |-> generateRevisionID(
                                LocalMinute(call.zone, ClockMinute(call.second)))]
    /\ UNCHANGED <<toDelete, ctx, cfg, store, now, bRevisionID, pc, revisionID, indices,
                   documents, tainted, indexedDocuments, runErr, hist, committed,
                   faults>>

NamingNext == NamingFormat \/ NamingExtract \/ NamingGenerate

NamingSpec == NamingInit /\ [][NamingNext]_vars

\* ------------------------------- content extraction (pkg/indexing)
\* ContentServer.Provide applied to drawn content trees: the repo the
\* content source returns, the IndexID asked for, the remote calls that
\* fail and what each provider function does.

\* The content types of the nodes: the ones of DocumentTypes are in
\* supportedMimeTypes, "other" is not.
MimeTypes == DocumentTypes \cup {"other"}

SupportedMimeTypes == DocumentTypes

\* A nil *content.RepoNode.
NilNode == [ID |-> "nil", MimeType |-> "nil", Hidden |-> FALSE, Nodes |-> <<>>]

\* The nodes without children whose identity is one of ids.
Leaves(ids) ==
    {[ID |-> id, MimeType |-> m, Hidden |-> h, Nodes |-> <<>>] :
        id \in ids, m \in MimeTypes, h \in BOOLEAN}

\* The trees of a dimension: up to three nodes, as a root, a root with one
\* child (or a nil child), a root with two children, a chain; identities
\* may repeat.
Trees ==
    LET roots  == Leaves({"d1"})
        second == Leaves({"d1", "d2"})
        third  == Leaves({"d1", "d2", "d3"})
    IN  roots
        \cup {[r EXCEPT !.Nodes = <<c>>] : r \in roots, c \in second \cup {NilNode}}
        \cup {[r EXCEPT !.Nodes = <<c1, c2>>] :
                 r \in roots, c1 \in second, c2 \in third}
        \cup {[r EXCEPT !.Nodes = <<[c1 EXCEPT !.Nodes = <<c2>>]>>] :
                 r \in roots, c1 \in second, c2 \in third}

\* createFlatRepoNodeMap: the maps it can return, one for every order the
\* ranges over the children can take.  A map is a function from the
\* identities to the nodes.
RECURSIVE createFlatRepoNodeMap(_, _)
RECURSIVE FlattenChildren(_, _, _, _)
\* createFlatRepoNodeMap keeping the entry an identity already has.
createFlatRepoNodeMapKeepsFirst(node, nodeMap) ==
    IF node = NilNode THEN {nodeMap}
    ELSE UNION {FlattenChildren(node.Nodes, ord, 1, {nodeMap @@ (node.ID :> node)}) :
                    ord \in Orders(DOMAIN node.Nodes)}

createFlatRepoNodeMap(node, nodeMap) ==
    IF node = NilNode THEN {nodeMap}
    ELSE UNION {FlattenChildren(node.Nodes, ord, 1, {(node.ID :> node) @@ nodeMap}) :
                    ord \in Orders(DOMAIN node.Nodes)}

\* The loop over node.Nodes, from the i-th child of the order on.
FlattenChildren(children, ord, i, nodeMaps) ==
    IF i > Len(children) THEN nodeMaps
    ELSE FlattenChildren(children, ord, i + 1,
             UNION {createFlatRepoNodeMap(children[ord[i]], m) : m \in nodeMaps})

\* The filter of getDocumentIDsByIndexID taking hidden nodes too.
IncludedIgnoringHidden(repoNode) == repoNode.MimeType \in SupportedMimeTypes

\* The filter of getDocumentIDsByIndexID (line 99, negated).
Included(repoNode) ==
    ~repoNode.Hidden /\ repoNode.MimeType \in SupportedMimeTypes

\* The loop of getDocumentIDsByIndexID over nodeMap in the order ord of
\* its keys, from the i-th key on.
RECURSIVE AppendDocumentInfos(_, _, _)
AppendDocumentInfos(nodeMap, ord, i) ==
    IF i > Len(ord) THEN <<>>
    ELSE (IF Included(nodeMap[ord[i]])
          THEN <<[DocumentType |-> nodeMap[ord[i]].MimeType,
                  DocumentID   |-> nodeMap[ord[i]].ID]>>
          ELSE <<>>) \o AppendDocumentInfos(nodeMap, ord, i + 1)

\* getDocumentIDsByIndexID: the results it can return, one for every order
\* of the ranges.  repo maps the dimensions to their root nodes.
getDocumentIDsByIndexID(repo, getRepoFails, indexID) ==
    IF getRepoFails
    THEN {[documentInfos |-> <<>>, err |-> TRUE, failing |-> "repo", nodeMap |-> <<>>]}
    ELSE IF indexID \notin DOMAIN repo
    THEN {[documentInfos |-> <<>>, err |-> TRUE, failing |-> "dimension",
           nodeMap |-> <<>>]}
    ELSE UNION {{[documentInfos |-> AppendDocumentInfos(nodeMap, ord, 1),
                  err |-> FALSE, failing |-> "none", nodeMap |-> nodeMap] :
                    ord \in Orders(DOMAIN nodeMap)} :
                nodeMap \in createFlatRepoNodeMap(repo[indexID], <<>>)}

\* What Provide can be called on.
ProvideInputs ==
    {[op |-> "provide", n |-> 0, repo |-> (IdxX :> tree), indexID |-> id,
      getRepoFails |-> f, getURIsFails |-> g] :
        tree \in Trees, id \in {IdxX, IdxW}, f \in BOOLEAN, g \in BOOLEAN}

ProvideInit ==
    /\ cfg = [collections |-> IndexIDs, preset |-> FALSE]
    /\ store = EmptyStore
    /\ now = 0
    /\ bRevisionID = [r \in Runners |-> NoRevision]
    /\ pc = [r \in Runners |-> "idle"]
    /\ revisionID = [r \in Runners |-> NoRevision]
    /\ indices = [r \in Runners |-> <<>>]
    /\ documents = [r \in Runners |-> <<>>]
    /\ tainted = [r \in Runners |-> FALSE]
    /\ indexedDocuments = [r \in Runners |-> 0]
    /\ runErr = [r \in Runners |-> FALSE]
    /\ hist = [r \in Runners |-> FreshHist(EmptyStore)]
    /\ ctx = [r \in Runners |-> "live"]
    /\ toDelete = [r \in Runners |-> <<>>]
    /\ committed = {}
    /\ faults = 0
    /\ call \in ProvideInputs

\* ContentServer.Provide, from the fetch of the repo to the return.
ProvideCall ==
    /\ call.op = "provide"
    /\ \E ids \in getDocumentIDsByIndexID(call.repo, call.getRepoFails, call.indexID) :
       \E provider \in ProviderOutcomes(Len(ids.documentInfos)) :
         LET failing == IF ids.err THEN ids.failing
                        ELSE IF call.getURIsFails THEN "uris" ELSE "none"
             res     == Provide(ids.documentInfos, provider, failing)
         IN  call' = [call EXCEPT !.op = "provided"]
                       @@ [nodeMap       |-> ids.nodeMap,
                           documentInfos |-> ids.documentInfos,
                           provider      |-> provider,
                           failing       |-> failing,
                           documents     |-> res.documents,
                           invoked       |-> res.invoked,
                           err           |-> res.err]
    /\ UNCHANGED <<toDelete, ctx, cfg, store, now, bRevisionID, pc, revisionID, indices,
                   documents, tainted, indexedDocuments, runErr, hist, committed,
                   faults>>

ProvideNext == ProvideCall

ProvideSpec == ProvideInit /\ [][ProvideNext]_vars

\* ------------------------------------------- build lifecycle (pkg/api)
\* A client driving one BaseAPI through builds the way Run does: Initialize,
\* then CommitRevision or RevertRevision of the revision Initialize
\* returned, with Healthz at any time.  call keeps the operation that
\* returned last and what the client has seen so far:
\*   revisionID  the revision of the build in progress (NoRevision: none)
\*   live        IndexID -> the generation its last CommitRevision that
\*               returned without error published
\*   prev        live before the operation
\*   initOk      some Initialize has returned without error

\* live after a CommitRevision(rev) that returned without error.
Published(live, config, rev) ==
    [indexID \in DOMAIN live \cup config.collections |->
        IF indexID \in config.collections
        THEN formatCollectionName(indexID, rev)
        ELSE live[indexID]]

LifeInit ==
    /\ cfg \in Configs
    /\ store = EmptyStore
    /\ now = 0
    /\ bRevisionID = [r \in Runners |-> NoRevision]
    /\ pc = [r \in Runners |-> "idle"]
    /\ revisionID = [r \in Runners |-> NoRevision]
    /\ indices = [r \in Runners |-> <<>>]
    /\ documents = [r \in Runners |-> <<>>]
    /\ tainted = [r \in Runners |-> FALSE]
    /\ indexedDocuments = [r \in Runners |-> 0]
    /\ runErr = [r \in Runners |-> FALSE]
    /\ hist = [r \in Runners |-> FreshHist(EmptyStore)]
    /\ ctx = [r \in Runners |-> "live"]
    /\ toDelete = [r \in Runners |-> <<>>]
    /\ committed = {}
    /\ faults = 0
    /\ call = [op |-> "none", revisionID |-> NoRevision, err |-> FALSE,
               live |-> <<>>, prev |-> <<>>, initOk |-> FALSE]

LifeInitialize ==
    /\ call.revisionID = NoRevision
    /\ \E t \in now..MaxMinute, ord \in Orders(cfg.collections),
          fail \in InitFailures(Cardinality(cfg.collections)) :
         LET res == Initialize(store, cfg, bRevisionID[Client], t, ord, fail)
         IN  /\ InitFailureMade(store, cfg, t, ord, fail)
             /\ faults + (IF fail.at = "none" THEN 0 ELSE 1) <= MaxFaults
             /\ faults' = faults + (IF fail.at = "none" THEN 0 ELSE 1)
             /\ store' = res.st
             /\ now' = t
             /\ bRevisionID' = [bRevisionID EXCEPT ![Client] = res.bRevisionID]
             /\ call' = [op |-> "Initialize", revisionID |-> res.revisionID,
                         err |-> res.err, live |-> call.live, prev |-> call.live,
                         initOk |-> call.initOk \/ ~res.err]
    /\ UNCHANGED <<toDelete, ctx, cfg, pc, revisionID, indices, documents, tainted,
                   indexedDocuments, runErr, hist, committed>>

LifeCommitRevision ==
    /\ call.revisionID # NoRevision
    /\ \E ord \in Orders(cfg.collections),
          outcome \in CommitOutcomes(store, cfg, call.revisionID, MaxFaults - faults) :
         LET res == CommitRevision(store, call.revisionID, ord, outcome)
         IN  /\ faults + CommitFaults(outcome) <= MaxFaults
             /\ CommitOutcomeMade(res.steps, call.revisionID, outcome)
             /\ faults' = faults + CommitFaults(outcome)
             /\ store' = res.st
             /\ call' = [op |-> "CommitRevision", revisionID |-> NoRevision,
                         err |-> res.err,
                         live |-> IF res.err THEN call.live
                                  ELSE Published(call.live, cfg, call.revisionID),
                         prev |-> call.live, initOk |-> call.initOk]
    /\ UNCHANGED <<toDelete, ctx, cfg, now, bRevisionID, pc, revisionID, indices, documents,
                   tainted, indexedDocuments, runErr, hist, committed>>

LifeRevertRevision ==
    /\ call.revisionID # NoRevision
    /\ \E ord \in Orders(cfg.collections), failAt \in 0..Cardinality(cfg.collections) :
         LET res == RevertRevision(store, call.revisionID, ord, failAt)
         IN  /\ RevertFailureMade(store, call.revisionID, ord, failAt)
             /\ faults + (IF failAt = 0 THEN 0 ELSE 1) <= MaxFaults
             /\ faults' = faults + (IF failAt = 0 THEN 0 ELSE 1)
             /\ store' = res.st
             /\ call' = [op |-> "RevertRevision", revisionID |-> NoRevision,
                         err |-> res.err, live |-> call.live, prev |-> call.live,
                         initOk |-> call.initOk]
    /\ UNCHANGED <<toDelete, ctx, cfg, now, bRevisionID, pc, revisionID, indices, documents,
                   tainted, indexedDocuments, runErr, hist, committed>>

LifeHealthz ==
    /\ call' = [call EXCEPT !.op = "Healthz",
                            !.err = ~Healthz(bRevisionID[Client]),
                            !.prev = call.live]
    /\ UNCHANGED <<toDelete, ctx, cfg, store, now, bRevisionID, pc, revisionID, indices,
                   documents, tainted, indexedDocuments, runErr, hist, committed,
                   faults>>

LifeNext ==
    \/ LifeInitialize
    \/ LifeCommitRevision
    \/ LifeRevertRevision
    \/ LifeHealthz

LifecycleSpec == LifeInit /\ [][LifeNext]_vars

\* ------------------------------------------------------------ properties

AliasTargets(st, indexID, name) ==
    indexID \in DOMAIN st.alias /\ st.alias[indexID] = name

\* The alias of indexID is set and names a collection that exists.
AliasLive(st, indexID) ==
    indexID \in DOMAIN st.alias /\ Exists(st, st.alias[indexID])

Decisions(r) == hist[r].commits + hist[r].reverts

Untainted(r) == hist[r].provideErr = {} /\ hist[r].upsertErr = {}

\* Run r is past its loop over the indices.
PastLoop(r) == (pc[r] = "loop" /\ indices[r] = <<>>) \/ Decisions(r) > 0

\* C1: when a Run ends with a successful RevertRevision(R), no generation
\* IndexID-R exists, and the alias of every IndexID committed earlier, which
\* targeted another generation before the Run, still targets that
\* generation, which still exists.
C1_RevertLeavesPreviousLive ==
    \A r \in Runners :
        (pc[r] = "returned" /\ hist[r].reverts = 1 /\ ~hist[r].decidedErr) =>
            \A indexID \in cfg.collections :
                /\ ~Exists(store, formatCollectionName(indexID, hist[r].decidedFor))
                /\ (/\ indexID \in committed
                    /\ indexID \in DOMAIN hist[r].aliasBefore
                    /\ hist[r].aliasBefore[indexID] #
                           formatCollectionName(indexID, hist[r].decidedFor))
                       => /\ AliasTargets(store, indexID, hist[r].aliasBefore[indexID])
                          /\ AliasLive(store, indexID)

\* C2: once a CommitRevision has succeeded for an IndexID, its alias is set
\* and names a generation that exists, in every state.
C2_AliasNeverDangling ==
    \A indexID \in committed : AliasLive(store, indexID)

\* C3: between Initialize returning R and the decision of the Run, no alias
\* targets the generation IndexID-R.
C3_NotVisibleBeforeCommit ==
    \A r \in Runners :
        pc[r] \in {"indices", "loop", "upsert"} =>
            \A indexID \in cfg.collections :
                ~AliasTargets(store, indexID,
                              formatCollectionName(indexID, revisionID[r]))

\* C4: when Initialize returns R without error, IndexID-R exists for every
\* configured IndexID and every alias is as it was before the call.
C4_InitializeLeavesAliases ==
    \A r \in Runners :
        pc[r] = "indices" =>
            /\ \A indexID \in cfg.collections :
                   Exists(store, formatCollectionName(indexID, revisionID[r]))
            /\ store.alias = hist[r].aliasBefore

\* The log of a CommitRevision call has the alias swap of indexID, and a
\* pruning of indexID after it.
PrunedAfterSwap(log, indexID) ==
    \E i, j \in DOMAIN log :
        i < j /\ log[i] = <<"alias", indexID>> /\ log[j] = <<"prune", indexID>>

\* C5: when CommitRevision(R) returns without error, every configured alias
\* targets IndexID-R and pruning has run for that IndexID after the swap.
C5_CommitRepointsThenPrunes ==
    \A r \in Runners :
        (pc[r] = "returned" /\ hist[r].commits = 1 /\ ~hist[r].decidedErr) =>
            \A indexID \in cfg.collections :
                /\ AliasTargets(store, indexID,
                                formatCollectionName(indexID, hist[r].decidedFor))
                /\ PrunedAfterSwap(hist[r].commitLog, indexID)

\* A CommitRevision over two indices has returned without error, in a
\* behaviour in which a remote call has failed.
C5_Witness ==
    \E r \in Runners :
        /\ pc[r] = "returned" /\ hist[r].commits = 1 /\ ~hist[r].decidedErr
        /\ Cardinality(cfg.collections) = 2
        /\ Len(hist[r].commitLog) = 4
        /\ faults > 0

\* C6: a Run past Initialize and Indices invokes CommitRevision exactly when
\* no Provide or UpsertDocuments returned an error and the document total is
\* above zero, and RevertRevision in every other case.
C6_CommitIffCleanAndNonEmpty ==
    \A r \in Runners :
        /\ hist[r].commits = 1 => (Untainted(r) /\ indexedDocuments[r] > 0)
        /\ hist[r].reverts = 1 => ~(Untainted(r) /\ indexedDocuments[r] > 0)
        /\ (pc[r] = "returned" /\ hist[r].indicesOk) =>
              /\ (Untainted(r) /\ indexedDocuments[r] > 0) => hist[r].commits = 1
              /\ ~(Untainted(r) /\ indexedDocuments[r] > 0) => hist[r].reverts = 1

\* A tainted Run that indexed documents has reverted.
C6_Witness ==
    \E r \in Runners :
        /\ pc[r] = "returned" /\ hist[r].reverts = 1 /\ hist[r].commits = 0
        /\ ~Untainted(r) /\ indexedDocuments[r] > 0

\* C7: a Run without any error in which no actual document was provided
\* reverts and does not commit.
C7_NeverPublishesEmpty ==
    \A r \in Runners :
        (pc[r] = "returned" /\ hist[r].indicesOk /\ Untainted(r) /\ ~runErr[r]
            /\ ~hist[r].realDoc)
            => (hist[r].reverts = 1 /\ hist[r].commits = 0)

\* C8: past the loop, Provide has been invoked exactly once for every
\* configured IndexID, and UpsertDocuments exactly once for those whose
\* Provide returned without error and never for the others.
C8_FullFanOut ==
    \A r \in Runners :
        /\ \A indexID \in IndexIDs :
               /\ hist[r].provided[indexID] <= 1
               /\ hist[r].upserted[indexID] <= hist[r].provided[indexID]
               /\ indexID \notin cfg.collections => hist[r].provided[indexID] = 0
        /\ PastLoop(r) =>
               \A indexID \in cfg.collections :
                   /\ hist[r].provided[indexID] = 1
                   /\ hist[r].upserted[indexID] =
                          IF indexID \in hist[r].provideErr THEN 0 ELSE 1

\* A Run of two indices is past its loop, Provide failed for one index and
\* UpsertDocuments for the other.
C8_Witness ==
    \E r \in Runners :
        /\ PastLoop(r)
        /\ hist[r].provideErr # {} /\ hist[r].upsertErr # {}

\* C9: nothing is invoked before Initialize has returned a non-empty
\* RevisionID without error, and the decision is taken only when every
\* configured index has been through Provide and, unless that failed,
\* UpsertDocuments, with no iteration in progress.
C9_PhasesOrdered ==
    \A r \in Runners :
        /\ (~hist[r].initOk \/ hist[r].initRev = NoRevision) =>
               /\ \A indexID \in IndexIDs :
                      hist[r].provided[indexID] = 0 /\ hist[r].upserted[indexID] = 0
               /\ Decisions(r) = 0
               /\ ~hist[r].indicesOk
        /\ Decisions(r) > 0 =>
               /\ \A indexID \in cfg.collections :
                      /\ hist[r].provided[indexID] = 1
                      /\ indexID \in hist[r].provideErr \/ hist[r].upserted[indexID] = 1
               /\ indices[r] = <<>> /\ documents[r] = <<>>
               /\ tainted[r] = ~Untainted(r)

\* A Run has returned because Initialize failed.
C9_Witness ==
    \E r \in Runners :
        pc[r] = "returned" /\ hist[r].initCalls = 1 /\ ~hist[r].initOk /\ runErr[r]

\* C10, as claimed: every Run in which Initialize succeeds has invoked
\* exactly one of CommitRevision and RevertRevision when it returns.
C10_AlwaysDecides ==
    \A r \in Runners :
        (pc[r] = "returned" /\ hist[r].initOk) => Decisions(r) = 1

\* C10, amended: every Run in which Initialize and Indices succeed has
\* invoked exactly one of CommitRevision(R) and RevertRevision(R), once, for
\* the R Initialize returned, when it returns, and nothing after it; a Run
\* whose Indices fails (no collections configured) returns that error having
\* invoked neither.
C10_DecidesOnceIfIndices ==
    \A r \in Runners :
        /\ Decisions(r) <= 1
        /\ Decisions(r) = 1 =>
               /\ pc[r] = "returned"
               /\ hist[r].decidedFor = hist[r].initRev
               /\ hist[r].initRev # NoRevision
        /\ (pc[r] = "returned" /\ hist[r].initOk /\ hist[r].indicesOk) =>
               Decisions(r) = 1
        /\ (pc[r] = "returned" /\ hist[r].initOk /\ ~hist[r].indicesOk) =>
               Decisions(r) = 0 /\ cfg.collections = {} /\ runErr[r]

\* A Run in which Provide failed for an index has returned after its one
\* decision.
C10_Witness ==
    \E r \in Runners :
        /\ pc[r] = "returned" /\ hist[r].initOk /\ hist[r].indicesOk
        /\ hist[r].provideErr # {}
        /\ Decisions(r) = 1

\* The generations of indexID in st: the collections whose name parses to a
\* RevisionID against indexID.
Generations(st, indexID) ==
    {c \in DOMAIN st.coll : extractRevisionID(c, indexID) # NoRevision}

\* The greatest name of S in string order (S not empty).
Latest(S) == CHOOSE x \in S : \A y \in S : ~StrLess(x, y)

\* What retention leaves of the generations before, the current one being
\* their latest: it and the one before it.
Retained(before) ==
    IF Cardinality(before) <= 1 THEN before
    ELSE {Latest(before), Latest(before \ {Latest(before)})}

\* C11: in every iteration of a CommitRevision(R) in which no pruning call
\* failed, the generations of the IndexID r1 < ... < rN = R are pruned to
\* exactly rN and r(N-1) (nothing is deleted for N <= 1) and the current one
\* is never deleted; and after every CommitRevision that returned without
\* error every IndexID has at most two generations.
C11_RetentionKeepsTwo ==
    call.op = "CommitRevision" =>
        /\ \A i \in DOMAIN call.steps :
               LET step    == call.steps[i]
                   current == formatCollectionName(step.indexID, call.revisionID)
                   before  == Generations(step.before, step.indexID)
                   after   == Generations(step.after, step.indexID)
               IN  /\ current \in before => current \in after
                   /\ (CommitFaults(call.outcome) = 0 /\ before # {}
                          /\ current = Latest(before))
                         => after = Retained(before)
        /\ ~call.err =>
               \A indexID \in cfg.collections :
                   Cardinality(Generations(store, indexID)) <= 2

\* The alias of indexID is in st2 what it was in st1.
SameAlias(st1, st2, indexID) ==
    /\ (indexID \in DOMAIN st1.alias) = (indexID \in DOMAIN st2.alias)
    /\ indexID \in DOMAIN st1.alias => st2.alias[indexID] = st1.alias[indexID]

\* C12: when the alias upsert fails at position k of a CommitRevision(R),
\* the call returns an error, the aliases of the IndexIDs before k target
\* IndexID-R, the aliases of the IndexIDs from k on are what they were
\* before the call, and only the IndexIDs before k have been pruned.
C12_AliasFailureAborts ==
    (call.op = "CommitRevision" /\ call.outcome.aliasFailAt # 0) =>
        LET k == call.outcome.aliasFailAt
        IN  /\ call.err
            /\ \A i \in DOMAIN call.ord :
                   IF i < k
                   THEN AliasTargets(store, call.ord[i],
                                     formatCollectionName(call.ord[i], call.revisionID))
                   ELSE SameAlias(call.before, store, call.ord[i])
            /\ Len(call.steps) = k - 1
            /\ \A i \in DOMAIN call.steps : call.steps[i].indexID = call.ord[i]
            /\ store.coll = IF k = 1 THEN call.before.coll
                            ELSE call.steps[k - 1].after.coll

\* A CommitRevision(R) over two indices whose aliases targeted generations
\* of another revision has failed at the second alias upsert: the first
\* alias targets R, the second does not.
C12_Witness ==
    /\ call.op = "CommitRevision" /\ call.outcome.aliasFailAt = 2
    /\ \A i \in 1..2 :
           /\ call.ord[i] \in DOMAIN call.before.alias
           /\ call.before.alias[call.ord[i]] #
                  formatCollectionName(call.ord[i], call.revisionID)
    /\ AliasTargets(store, call.ord[1],
                    formatCollectionName(call.ord[1], call.revisionID))
    /\ ~AliasTargets(store, call.ord[2],
                     formatCollectionName(call.ord[2], call.revisionID))

\* A pruning call of the CommitRevision in call has failed: the listing of
\* the collections for an IndexID, or a deletion it attempted.
PruningFailed ==
    \E i \in DOMAIN call.steps :
        \/ call.steps[i].pruneErr
        \/ DelFailFor(call.outcome, call.steps[i].indexID) \cap
               PruneTargets(call.steps[i].before, call.steps[i].indexID,
                            formatCollectionName(call.steps[i].indexID,
                                                 call.revisionID)) # {}

\* C13: when pruning fails inside a CommitRevision(R) whose alias upserts
\* all succeed, the call returns without error, every IndexID has been
\* through the loop and every alias targets IndexID-R; a pruning whose
\* listing failed has deleted nothing.
C13_PruneFailureNotPropagated ==
    (call.op = "CommitRevision" /\ call.outcome.aliasFailAt = 0 /\ PruningFailed) =>
        /\ ~call.err
        /\ Len(call.steps) = Len(call.ord)
        /\ \A indexID \in cfg.collections :
               AliasTargets(store, indexID,
                            formatCollectionName(indexID, call.revisionID))
        /\ \A i \in DOMAIN call.steps :
               call.steps[i].pruneErr =>
                   call.steps[i].after.coll = call.steps[i].before.coll

\* A CommitRevision(R) over two indices, whose aliases targeted another
\* revision, has returned without error although the pruning of the first
\* IndexID of the loop failed.
C13_Witness ==
    /\ call.op = "CommitRevision" /\ ~call.err
    /\ Len(call.steps) = 2 /\ call.steps[1].pruneErr
    /\ \A indexID \in cfg.collections :
           /\ indexID \in DOMAIN call.before.alias
           /\ call.before.alias[indexID] # store.alias[indexID]

\* The first position of a RevertRevision's loop at which the deletion
\* fails: the one made to fail, or one whose collection does not exist.
RevertFailures(c) ==
    {i \in DOMAIN c.ord :
        i = c.failAt \/ ~Exists(c.before, formatCollectionName(c.ord[i], c.revisionID))}

\* C14: RevertRevision(R) returns an error exactly when a deletion fails;
\* then the generations of R before the failing position are deleted, those
\* from the failing position on are as before the call, as is every other
\* collection, and no alias has been modified.
C14_RevertFailureAborts ==
    call.op = "RevertRevision" =>
        /\ call.err = (RevertFailures(call) # {})
        /\ store.alias = call.before.alias
        /\ store.preset = call.before.preset
        /\ LET k == IF call.err THEN MinOf(RevertFailures(call))
                    ELSE Len(call.ord) + 1
               deleted == {formatCollectionName(call.ord[i], call.revisionID) :
                              i \in 1..(k - 1)}
           IN  /\ DOMAIN store.coll = DOMAIN call.before.coll \ deleted
               /\ \A c \in DOMAIN store.coll : store.coll[c] = call.before.coll[c]

\* A RevertRevision(R) over two indices whose generations of R both existed
\* has failed at the second deletion: the first generation is gone, the
\* second is left.
C14_Witness ==
    /\ call.op = "RevertRevision" /\ call.err /\ call.failAt = 2
    /\ \A i \in 1..2 :
           Exists(call.before, formatCollectionName(call.ord[i], call.revisionID))
    /\ ~Exists(store, formatCollectionName(call.ord[1], call.revisionID))
    /\ Exists(store, formatCollectionName(call.ord[2], call.revisionID))

\* C15: UpsertDocuments with an empty slice returns without error and
\* leaves the store as it was, whatever the store holds (no import is made,
\* so no remote call of it can fail).
C15_EmptyUpsertIsNoOp ==
    (call.op = "UpsertDocuments" /\ Len(call.documents) = 0) =>
        /\ ~call.err
        /\ store = call.before
        /\ ImportFaults(call.documents, call.outcome) = 0

\* UpsertDocuments with an empty slice has returned, for a generation that
\* does not exist: an import into it would have been answered with an error.
C15_Witness ==
    /\ call.op = "UpsertDocuments" /\ Len(call.documents) = 0
    /\ ~call.outcome.rejected
    /\ ~Exists(call.before, formatCollectionName(call.indexID, call.revisionID))
    /\ call.before.coll # <<>>

\* C16: in a Run, UpsertDocuments has returned an error for exactly the
\* IndexIDs whose import call was rejected as a whole, whatever the accepted
\* imports reported for their documents, and the Run is tainted only by a
\* Provide error or a rejected import.
C16_OnlyRejectedImportFails ==
    \A r \in Runners :
        /\ hist[r].upsertErr = hist[r].rejected
        /\ (pc[r] \in {"loop", "upsert"} \/ Decisions(r) > 0) =>
               tainted[r] = (hist[r].provideErr \cup hist[r].rejected # {})

\* A Run that provided an actual document has committed untainted, and no
\* generation of its revision holds a document: every document of its
\* accepted imports was reported as failed.
C16_Witness ==
    \E r \in Runners :
        /\ pc[r] = "returned" /\ hist[r].commits = 1 /\ ~tainted[r]
        /\ hist[r].realDoc
        /\ \A indexID \in cfg.collections :
               LET name == formatCollectionName(indexID, hist[r].decidedFor)
               IN  Exists(store, name) /\ store.coll[name] = {}

\* The remote call the Initialize in c was set to fail at is made and fails:
\* Create is called only for a name that does not exist, the preset is
\* upserted only when one is configured.
InitFailureMet(c) ==
    CASE c.fail.at = "none"   -> FALSE
      [] c.fail.at = "create" ->
             ~Exists(c.before, formatCollectionName(c.ord[c.fail.k], c.newRevisionID))
      [] c.fail.at = "preset" -> cfg.preset
      [] OTHER                -> TRUE

\* C17: Initialize returns an error, and the empty RevisionID with it,
\* exactly when the health check, the listing of aliases or collections, the
\* creation of a generation, an alias upsert or the preset upsert fails;
\* when one of the calls before the loop fails the store is left as it was.
C17_InitializeFailures ==
    call.op = "Initialize" =>
        /\ call.err = InitFailureMet(call)
        /\ call.err => call.revisionID = NoRevision
        /\ ~call.err => call.revisionID = call.newRevisionID
        /\ call.fail.at \in {"health", "aliases", "fetch"} => store = call.before

\* Initialize has returned an error and no RevisionID because the creation
\* of the second generation failed, the first one having been created.
C17_Witness ==
    /\ call.op = "Initialize" /\ call.err /\ call.revisionID = NoRevision
    /\ call.fail.at = "create" /\ call.fail.k = 2
    /\ ~Exists(call.before, formatCollectionName(call.ord[1], call.newRevisionID))
    /\ Exists(store, formatCollectionName(call.ord[1], call.newRevisionID))
    /\ ~Exists(store, formatCollectionName(call.ord[2], call.newRevisionID))

\* The generation names an Initialize of revision newRevisionID asks for.
NewGenerations(newRevisionID) ==
    {formatCollectionName(indexID, newRevisionID) : indexID \in cfg.collections}

\* C18: an Initialize none of whose remote calls fails returns without
\* error; every generation IndexID-R that existed before the call is left
\* with its documents, every one that did not exist is created empty, and
\* no other collection is created, deleted or changed.
C18_CreationIdempotent ==
    (call.op = "Initialize" /\ call.fail.at = "none") =>
        /\ ~call.err
        /\ DOMAIN store.coll =
               DOMAIN call.before.coll \cup NewGenerations(call.newRevisionID)
        /\ \A c \in DOMAIN store.coll :
               store.coll[c] = IF Exists(call.before, c) THEN call.before.coll[c]
                               ELSE {}

\* An Initialize over two indices has returned without error: one of its
\* generations existed before, holding a document, and still holds it, the
\* other one has been created.
C18_Witness ==
    /\ call.op = "Initialize" /\ ~call.err
    /\ \E c1, c2 \in NewGenerations(call.newRevisionID) :
           /\ Exists(call.before, c1) /\ call.before.coll[c1] # {}
           /\ store.coll[c1] = call.before.coll[c1]
           /\ ~Exists(call.before, c2) /\ Exists(store, c2)

\* C19: a name formatted from an IndexID id and a RevisionID rev of 16
\* characters parses back to rev against id, also for an id that holds a
\* Dash.
C19_RoundTrip ==
    (call.op = "extracted" /\ call.formatted /\ call.name = call.indexID) =>
        /\ Len(call.revisionID) = RevisionIDLen
        /\ call.result = call.revisionID

\* A name formatted from an IndexID that holds a Dash has been parsed back
\* against it.
C19_Witness ==
    /\ call.op = "extracted" /\ call.formatted /\ call.name = call.indexID
    /\ \E i \in DOMAIN call.indexID : call.indexID[i] = Dash
    /\ call.result # NoRevision

\* s starts with the characters of t.
StartsWith(s, t) ==
    Len(s) >= Len(t) /\ \A i \in DOMAIN t : s[i] = t[i]

\* C20: extractRevisionID yields the empty RevisionID for every name that
\* does not start with id and a Dash, or that has not exactly 16 characters
\* after them; so the generation name of an IndexID yields no RevisionID
\* against another IndexID that is a prefix of it.
C20_NoRevisionOtherwise ==
    call.op = "extracted" =>
        /\ (\/ ~StartsWith(call.collectionName, call.name \o <<Dash>>)
            \/ Len(call.collectionName) # Len(call.name) + 1 + RevisionIDLen)
               => call.result = NoRevision
        /\ (/\ call.formatted
            /\ call.name # call.indexID
            /\ StartsWith(call.indexID, call.name))
               => call.result = NoRevision

\* The generation name of an IndexID has been parsed against another
\* IndexID that is a prefix of it followed by a Dash.
C20_Witness ==
    /\ call.op = "extracted" /\ call.formatted
    /\ call.name # call.indexID
    /\ StartsWith(call.collectionName, call.name \o <<Dash>>)
    /\ call.result = NoRevision

\* C21: generateRevisionID at instants of two different minutes, the first
\* earlier, gives RevisionIDs r1 < r2 in Go's string order, and so do the
\* generation names of every IndexID; at two instants of the same minute it
\* gives the same RevisionID and the same generation names.
C21_MinuteGranularity ==
    call.op = "generated" =>
        /\ ClockMinute(call.first) < ClockMinute(call.second) =>
               /\ StrLess(call.r1, call.r2)
               /\ \A id \in IndexIDs :
                      StrLess(formatCollectionName(id, call.r1),
                              formatCollectionName(id, call.r2))
        /\ ClockMinute(call.first) = ClockMinute(call.second) =>
               /\ call.r1 = call.r2
               /\ \A id \in IndexIDs :
                      formatCollectionName(id, call.r1) =
                          formatCollectionName(id, call.r2)
        /\ Len(call.r1) = RevisionIDLen

\* C22, as claimed: a Run that returned an error is one in which
\* Initialize, CommitRevision or RevertRevision failed.
C22_ErrorOnlyFromLifecycle ==
    \A r \in Runners :
        (pc[r] = "returned" /\ runErr[r]) =>
            (hist[r].initCalls = 1 /\ ~hist[r].initOk) \/ hist[r].decidedErr

\* C22, amended: Run returns an error exactly when Initialize, Indices,
\* CommitRevision or RevertRevision fails; a Run that was tainted or indexed
\* no document and whose RevertRevision succeeded returns no error.
C22_ErrorIffCallFails ==
    \A r \in Runners :
        (pc[r] = "returned" /\ hist[r].initCalls = 1) =>
            /\ runErr[r] <=>
                   \/ ~hist[r].initOk
                   \/ hist[r].initOk /\ ~hist[r].indicesOk
                   \/ Decisions(r) = 1 /\ hist[r].decidedErr
            /\ (hist[r].reverts = 1 /\ ~hist[r].decidedErr) =>
                   /\ tainted[r] \/ indexedDocuments[r] = 0
                   /\ ~runErr[r]

\* A Run in which UpsertDocuments failed for an index has returned nil
\* after a RevertRevision that succeeded.
C22_Witness ==
    \E r \in Runners :
        /\ pc[r] = "returned"
        /\ tainted[r] /\ hist[r].upsertErr # {}
        /\ hist[r].reverts = 1 /\ ~hist[r].decidedErr
        /\ ~runErr[r]

\* The nodes of the tree under node, node included.
RECURSIVE NodesOf(_)
NodesOf(node) ==
    IF node = NilNode THEN {}
    ELSE {node} \cup UNION {NodesOf(node.Nodes[i]) : i \in DOMAIN node.Nodes}

\* Provide got past getDocumentIDsByIndexID.
Extracted ==
    call.op = "provided" /\ call.failing \notin {"repo", "dimension"}

\* C23: the descriptors are, one each, the nodes of the flattened tree that
\* are not hidden and of a supported content type, with the node's content
\* type and identity; a hidden node has none whatever its type, and a node
\* has one or none whatever its ancestors are.
C23_DescriptorsAreVisibleSupported ==
    Extracted =>
        LET infos == call.documentInfos
            tree  == call.repo[call.indexID]
        IN  /\ \A id \in DOMAIN call.nodeMap :
                   LET node == call.nodeMap[id]
                       mine == {i \in DOMAIN infos : infos[i].DocumentID = id}
                   IN  /\ Cardinality(mine) =
                              IF ~node.Hidden /\ node.MimeType \in SupportedMimeTypes
                              THEN 1 ELSE 0
                       /\ \A i \in mine : infos[i].DocumentType = node.MimeType
            /\ \A i \in DOMAIN infos : infos[i].DocumentID \in DOMAIN call.nodeMap
            /\ \A node \in NodesOf(tree) :
                   (\A other \in NodesOf(tree) : other.ID = node.ID => other = node) =>
                       ((\E i \in DOMAIN infos :
                            infos[i] = [DocumentType |-> node.MimeType,
                                        DocumentID   |-> node.ID])
                        <=> (~node.Hidden /\ node.MimeType \in SupportedMimeTypes))

\* A hidden root, under it a node of an unsupported type, under that a
\* visible node of a supported type: the one descriptor is the last node's.
C23_Witness ==
    /\ Extracted
    /\ LET a == call.repo[call.indexID]
       IN  /\ a.Hidden /\ a.MimeType \in SupportedMimeTypes /\ Len(a.Nodes) = 1
           /\ a.Nodes[1].MimeType = "other" /\ ~a.Nodes[1].Hidden
           /\ a.Nodes[1].ID = "d2"
           /\ Len(a.Nodes[1].Nodes) = 1
           /\ a.Nodes[1].Nodes[1].ID = "d3"
           /\ ~a.Nodes[1].Nodes[1].Hidden
    /\ call.documentInfos = <<[DocumentType |-> "page", DocumentID |-> "d3"]>>

\* C24: a Provide that got its descriptors and URIs returns no error and
\* one slot per descriptor, in the descriptors' order; slot i holds the
\* document of descriptor i if a provider function is registered for its
\* DocumentType and returned a document without error, and is empty
\* otherwise.
C24_SlotPerDescriptor ==
    (call.op = "provided" /\ ~call.getRepoFails /\ call.indexID \in DOMAIN call.repo
        /\ ~call.getURIsFails) =>
        /\ ~call.err
        /\ Len(call.documents) = Len(call.documentInfos)
        /\ \A i \in DOMAIN call.documentInfos :
               IF call.documentInfos[i].DocumentType \in RegisteredTypes
                    /\ call.provider[i] = "doc"
               THEN call.documents[i] = call.documentInfos[i].DocumentID
               ELSE call.documents[i] = NilDoc

\* Three descriptors, no provider function registered for the second's
\* type: slots 1 and 3 hold the documents of descriptors 1 and 3, slot 2 is
\* empty.
C24_Witness ==
    /\ call.op = "provided" /\ ~call.err
    /\ Len(call.documentInfos) = 3
    /\ call.documentInfos[2].DocumentType \notin RegisteredTypes
    /\ call.provider[2] = "doc"
    /\ call.documents = <<call.documentInfos[1].DocumentID, NilDoc,
                          call.documentInfos[3].DocumentID>>

\* C25: Provide returns an error and no documents, and has invoked no
\* provider function, when the fetch of the repo fails, when the repo has
\* no root node for the IndexID, or when the lookup of the URIs fails.
C25_ProvideFailures ==
    (call.op = "provided"
        /\ (call.getRepoFails \/ call.indexID \notin DOMAIN call.repo
                \/ call.getURIsFails)) =>
        /\ call.err
        /\ call.documents = <<>>
        /\ call.invoked = {}

\* The lookup of the URIs failed for descriptors a provider function is
\* registered for.
C25_Witness ==
    /\ call.op = "provided"
    /\ ~call.getRepoFails /\ call.indexID \in DOMAIN call.repo
    /\ call.getURIsFails
    /\ Registered(call.documentInfos) # {}
    /\ call.err /\ call.invoked = {}

\* C26: a Run in which an iteration of the loop began after its context
\* was cancelled does not invoke CommitRevision.
C26_CancelledNeverCommits ==
    \A r \in Runners : ctx[r] = "ignored" => hist[r].commits = 0

\* The aliases of two IndexIDs target generations of different RevisionIDs.
Torn(st) ==
    \E id1, id2 \in cfg.collections :
        /\ id1 \in DOMAIN st.alias /\ id2 \in DOMAIN st.alias
        /\ extractRevisionID(st.alias[id1], id1) # extractRevisionID(st.alias[id2], id2)

\* C27: when both builds have returned and the aliases are torn, the two
\* builds were under way at the same time; run one after the other they
\* leave the aliases on one RevisionID.
C27_TornOnlyByInterleaving ==
    ((\A r \in Builders : pc[r] = "returned") /\ Torn(store)) => call.overlap

\* Both builds have committed and returned without error, and the aliases
\* of the two IndexIDs target generations of different RevisionIDs, both
\* existing.
C27_Witness ==
    /\ \A r \in Builders :
           pc[r] = "returned" /\ hist[r].commits = 1 /\ ~runErr[r]
    /\ Torn(store)
    /\ \A id \in cfg.collections : AliasLive(store, id)

\* C28: the Indices call of a Run changes nothing in the store and costs
\* no remote call; with no collections configured it fails, and Run
\* returns the error; otherwise it gives Run every configured IndexID once
\* and nothing else.
C28_IndicesStep ==
    \A r \in Runners :
        (pc[r] = "indices" /\ pc'[r] # "indices") =>
            /\ store' = store /\ faults' = faults
            /\ IF cfg.collections = {}
               THEN pc'[r] = "returned" /\ runErr'[r] /\ ~hist'[r].indicesOk
               ELSE /\ pc'[r] = "loop" /\ ~runErr'[r] /\ hist'[r].indicesOk
                    /\ Len(indices'[r]) = Cardinality(cfg.collections)
                    /\ Range(indices'[r]) = cfg.collections

C28_Indices == [][C28_IndicesStep]_vars

\* Indices has just returned the two configured IndexIDs to Run.
C28_Witness ==
    \E r \in Runners :
        /\ pc[r] = "loop" /\ hist[r].indicesOk
        /\ \A id \in IndexIDs : hist[r].provided[id] = 0
        /\ Cardinality(cfg.collections) = 2
        /\ Len(indices[r]) = 2 /\ Range(indices[r]) = cfg.collections

\* C29: what Run is about to pass to UpsertDocuments holds no empty slot.
C29_NoEmptySlotSubmitted ==
    \A r \in Runners :
        pc[r] = "upsert" => \A i \in DOMAIN documents[r] : documents[r][i] # NilDoc

\* C30: the count of a Run starts at zero, grows in every iteration in
\* which Provide and UpsertDocuments both returned without error by the
\* document count of that IndexID (the length of what Provide returned for
\* it), stays as it is in an iteration in which one of them failed, and is
\* what the decision finds: the sum over the IndexIDs that succeeded, also
\* in a tainted Run.
C30_CountStep ==
    \A r \in Runners :
        /\ (pc[r] = "indices" /\ pc'[r] = "loop") => indexedDocuments'[r] = 0
        /\ (pc[r] = "loop" /\ hist'[r].provided # hist[r].provided) =>
               /\ indexedDocuments'[r] = indexedDocuments[r]
               /\ Head(indices[r]) \in hist'[r].provideErr <=> pc'[r] = "loop"
        /\ (pc[r] = "upsert" /\ pc'[r] = "loop") =>
               indexedDocuments'[r] =
                   indexedDocuments[r] +
                       (IF Head(indices[r]) \in hist'[r].upsertErr THEN 0
                        ELSE Len(documents[r]))
        /\ (pc[r] = "loop" /\ pc'[r] = "returned") =>
               /\ indexedDocuments'[r] = indexedDocuments[r]
               /\ hist'[r].commits = 1 <=>
                      (indexedDocuments[r] > 0 /\ Untainted(r))

C30_CountOfSucceeded == [][C30_CountStep]_vars

\* The decision point of a Run over two IndexIDs: one was provided and
\* upserted with one document, Provide failed for the other; the Run is
\* tainted and its count is 1.
C30_Witness ==
    \E r \in Runners :
        /\ pc[r] = "loop" /\ indices[r] = <<>>
        /\ Cardinality(cfg.collections) = 2
        /\ Cardinality(hist[r].provideErr) = 1
        /\ hist[r].upsertErr = {} /\ hist[r].realDoc
        /\ tainted[r]
        /\ indexedDocuments[r] = 1

\* The orders a pre-order traversal can visit the nodes of the tree under
\* node in: the node, then the subtrees of its children in any order of
\* the range.
RECURSIVE PreOrders(_)
RECURSIVE PreOrdersOfChildren(_, _, _)
PreOrders(node) ==
    IF node = NilNode THEN {<<>>}
    ELSE UNION {{<<node>> \o rest : rest \in PreOrdersOfChildren(node.Nodes, ord, 1)} :
                    ord \in Orders(DOMAIN node.Nodes)}

PreOrdersOfChildren(children, ord, i) ==
    IF i > Len(children) THEN {<<>>}
    ELSE {first \o rest : first \in PreOrders(children[ord[i]]),
                          rest \in PreOrdersOfChildren(children, ord, i + 1)}

\* The node of identity id that visited comes to last.
LastVisited(visited, id) ==
    visited[CHOOSE i \in DOMAIN visited :
                /\ visited[i].ID = id
                /\ \A j \in DOMAIN visited : visited[j].ID = id => j <= i]

\* C31: the keys of the flat map are the identities of the nodes of the
\* tree, a nil node adding none; every node is visited once; the entry of
\* an identity is the node of that identity the pre-order traversal came to
\* last.
C31_FlatMapLastWins ==
    Extracted =>
        LET tree == call.repo[call.indexID]
        IN  /\ DOMAIN call.nodeMap = {node.ID : node \in NodesOf(tree)}
            /\ "nil" \notin DOMAIN call.nodeMap
            /\ \E visited \in PreOrders(tree) :
                   /\ Len(visited) >= Cardinality(NodesOf(tree))
                   /\ Range(visited) = NodesOf(tree)
                   /\ \A id \in DOMAIN call.nodeMap :
                          call.nodeMap[id] = LastVisited(visited, id)

\* A root and its child share their identity and differ in content type:
\* the one entry of the map is the child.
C31_Witness ==
    /\ Extracted
    /\ LET tree == call.repo[call.indexID]
       IN  /\ Len(tree.Nodes) = 1
           /\ tree.Nodes[1].ID = tree.ID
           /\ tree.Nodes[1].MimeType # tree.MimeType
           /\ tree.Nodes[1].Nodes = <<>>
           /\ DOMAIN call.nodeMap = {tree.ID}
           /\ call.nodeMap[tree.ID] = tree.Nodes[1]

\* C32: in a pruning whose listing succeeded, a deletion that fails does
\* not end the pass: pruneOldCollections returns no error, and of the
\* candidates beyond the retained one exactly those whose deletion failed
\* are left, every other one has been deleted.
C32_DeletionFailureDoesNotStop ==
    call.op = "CommitRevision" =>
        \A i \in DOMAIN call.steps :
            LET step    == call.steps[i]
                current == formatCollectionName(step.indexID, call.revisionID)
                targets == PruneTargets(step.before, step.indexID, current)
            IN  step.indexID \notin call.outcome.pruneFail =>
                    /\ ~step.pruneErr
                    /\ \A c \in targets :
                           Exists(step.after, c)
                               <=> c \in DelFailFor(call.outcome, step.indexID)

\* A pruning had two candidates beyond the retained one; the deletion of
\* the one attempted first failed, the one attempted after it was deleted,
\* and CommitRevision returned without error.
C32_Witness ==
    /\ call.op = "CommitRevision" /\ ~call.err
    /\ \E i \in DOMAIN call.steps :
           LET step    == call.steps[i]
               current == formatCollectionName(step.indexID, call.revisionID)
               targets == PruneTargets(step.before, step.indexID, current)
           IN  /\ ~step.pruneErr
               /\ \E failed \in targets \cap DelFailFor(call.outcome, step.indexID) :
                      \E later \in targets :
                          /\ StrLess(later, failed)
                          /\ Exists(step.after, failed)
                          /\ ~Exists(step.after, later)

\* C33: CommitRevision(R) repoints the alias of an IndexID to IndexID-R
\* only if that generation exists when the call is made (R came from an
\* Initialize and has not been reverted), and it leaves no alias it
\* repointed targeting a generation that does not exist.
C33_CommitOnlyInitialized ==
    call.op = "CommitRevision" =>
        \A i \in DOMAIN call.steps :
            LET indexID == call.steps[i].indexID
                name    == formatCollectionName(indexID, call.revisionID)
            IN  /\ Exists(call.before, name)
                /\ AliasTargets(store, indexID, name) => Exists(store, name)

\* C34: the pruning for an IndexID deletes only generations of that
\* IndexID, names of the form IndexID-<RevisionID of 16 characters>: no
\* collection that an iteration of CommitRevision removed is a generation
\* of another IndexID.
C34_PruneOnlyOwnGenerations ==
    call.op = "CommitRevision" =>
        \A i \in DOMAIN call.steps :
            LET step    == call.steps[i]
                deleted == DOMAIN step.before.coll \ DOMAIN step.after.coll
            IN  deleted \subseteq Generations(step.before, step.indexID)

\* C35: after a CommitRevision(R) that returned without error, the
\* generation that the last successful commit before it had published for
\* an IndexID still exists, whatever builds came in between.
C35_PreviousLiveRetained ==
    (call.op = "CommitRevision" /\ ~call.err) =>
        \A indexID \in DOMAIN call.prev : Exists(store, call.prev[indexID])

\* C36: Healthz returns without error exactly when some earlier Initialize
\* of the same instance returned without error.
C36_HealthzIffInitialized ==
    call.op = "Healthz" => (~call.err <=> call.initOk)

\* What C37 says of one step of a Run that does not commit.  A Run that
\* returns from a failed Initialize, which read the clock at now', has
\* added no generation of that minute's RevisionID and pointed no alias at
\* one; a RevertRevision(R) that returned without error leaves no
\* generation of R and no alias targeting one.
C37_Step ==
    \A r \in Runners :
        /\ (pc[r] = "idle" /\ pc'[r] = "returned") =>
               \A indexID \in cfg.collections :
                   LET name == formatCollectionName(indexID, generateRevisionID(now'))
                   IN  /\ Exists(store', name) => Exists(store, name)
                       /\ AliasTargets(store', indexID, name)
                              => AliasTargets(store, indexID, name)
        /\ (hist'[r].reverts = hist[r].reverts + 1 /\ ~hist'[r].decidedErr) =>
               \A indexID \in cfg.collections :
                   LET name == formatCollectionName(indexID, hist'[r].decidedFor)
                   IN  /\ ~Exists(store', name)
                       /\ ~AliasTargets(store', indexID, name)

\* C37: no build leaves an unpublished generation behind: a Run that
\* aborts in Initialize or that reverts leaves no generation of its
\* RevisionID and no alias targeting one.
C37_NoUnpublishedGeneration == [][C37_Step]_vars

\* C38: UpsertDocuments(R, IndexID, docs) changes nothing but the documents
\* of the generation IndexID-R: the aliases and the preset are what they
\* were, the same collections exist, and every other collection holds the
\* documents it held.
C38_UpsertTouchesOneGeneration ==
    call.op = "UpsertDocuments" =>
        LET name == formatCollectionName(call.indexID, call.revisionID)
        IN  /\ store.alias = call.before.alias
            /\ store.preset = call.before.preset
            /\ DOMAIN store.coll = DOMAIN call.before.coll
            /\ \A c \in DOMAIN store.coll \ {name} :
                   store.coll[c] = call.before.coll[c]

\* An UpsertDocuments has written a document into its generation while a
\* generation of another IndexID, whose name extends the same prefix,
\* held documents, and those are still there.
C38_Witness ==
    /\ call.op = "UpsertDocuments" /\ ~call.err
    /\ LET name == formatCollectionName(call.indexID, call.revisionID)
       IN  /\ Exists(store, name)
           /\ store.coll[name] # call.before.coll[name]
           /\ \E c \in DOMAIN store.coll \ {name} :
                  /\ HasPrefix(c, IdxW \o <<Dash>>) /\ HasPrefix(name, IdxW \o <<Dash>>)
                  /\ call.before.coll[c] # {}
                  /\ store.coll[c] = call.before.coll[c]
====
